---- MODULE Spec2Model ----
(***************************************************************************)
(* Secure-aggregation building blocks of let_them_drop: the three secret   *)
(* sharing schemes (SSS over a prime field, ISSS over the integers,        *)
(* ShoupSSS over the ring Z_{n*phi_n}), the vector encoding VES and the    *)
(* Joye-Libert scheme with its two threshold extensions.                   *)
(*                                                                         *)
(* The library is a set of pure functions; every specification below is a  *)
(* caller that draws the inputs from bounded sets and applies the          *)
(* functions in the order the tests and the protocols do.  Big numbers     *)
(* (2^65-493, the 1024-bit moduli) are scaled down to small primes; the    *)
(* arithmetic is the code's.                                               *)
(***************************************************************************)
EXTENDS Integers, Sequences, FiniteSets, TLC

VARIABLES
    \* ---- secret sharing caller (SpecSS) ----
    scheme,       \* "none" | "SSS" | "ISSS" | "Shoup": the scheme object in use
    ss_pc,        \* "start" | "shared" | "lagged" | "done"
    secret,       \* the secret given to share
    threshold,    \* the threshold given to share and to reconstruct
    coeffs,       \* the random coefficients share drew (highest degree first)
    shares,       \* the list share returned: records [idx, value]
    lagList,      \* the list of shares last given to lagrange
    lagOut,       \* what lagrange did: [err, coef], coef the returned dict
    recList,      \* the list of shares last given to reconstruct
    recOut,       \* what reconstruct did: [err, val]
    \* ---- vector encoding caller (SpecVES) ----
    ves,          \* the VES object: its fields
    nenc,         \* how many vectors were encoded and summed so far
    sumV,         \* the element-wise sum of the vectors encoded so far
    sumE,         \* the batch-wise integer sum of their encodings
    decoded,      \* what decode returned for sumE: [done, V]
    \* ---- Joye-Libert round (SpecJL) ----
    jl,           \* the scheme object: [cls, vector, threshold, nusers, delta]
    jl_pc,        \* "new" | "keys" | "online" | "done"
    hashOf,       \* the values of fdh.H on the tags of the round
    tau,          \* the round tag
    userKeys,     \* the user keys setup returned, by user 1..nusers
    serverKey,    \* the server key setup returned
    dropped,      \* the users that are offline in the online round
    keyShares,    \* keyShares[v]: the list sk_share returned for user v's key
    inputs,       \* inputs[u]: the input of online user u
    ys,           \* ys[u]: what protect returned to online user u
    zeroShares,   \* zeroShares[u]: what share_protect returned to user u
    combineOut,   \* what share_combine did: [err, val]
    aggOut,       \* what agg did: [err, val]
    \* ---- field elements (SpecField) ----
    f_pc,         \* how many of the two elements are constructed: 0, 1, 2
    fx,           \* the _value of the first element
    fy,           \* the _value of the second element
    fcall,        \* the last operation and its operands: [op, a, b]
    fres,         \* what the last operation did: [err, val]
    \* ---- full-domain hash (SpecFDH) ----
    fdh,          \* the FDH object: [bitsize, N]
    digest,       \* SHA256 on (t, counter): digest[t][counter], scaled to a byte
    hres,         \* what the last call of H did: [err, val, t], t the tag
    \* ---- encrypted numbers under several parameter objects (SpecParams) ----
    encA,         \* the first encrypted number, <<>> before it exists
    encB,         \* the second encrypted number, <<>> before it exists
    ppcall,       \* the last operation and its operands: [op, a, b]
    ppres,        \* what the last operation did: [err, val]
    \* ---- sums of sharings (SpecAdd) ----
    ad_scheme,    \* "none" | "SSS" | "ISSS" | "Shoup": the scheme of the sharings
    ad_t,         \* the threshold of every sharing
    ad_secrets,   \* the secrets shared so far
    ad_last,      \* the sharing made last
    ad_sum,       \* the index-by-index sum of the sharings made so far
    ad_add,       \* what the last a + b on two shares did: [err, val, a, b, i, j]
    ad_rec,       \* what lagrange and reconstruct did on shares of ad_sum: [err, val, list]
    \* ---- slot tags of vector mode (SpecTag) ----
    tg_pp,        \* the public parameters of the two keys
    tg_a,         \* a slot and its tag on both sides: [set, i, tau, enc, dec]
    tg_b,         \* another slot and its tag, of the same or of another round
    \* ---- one client of FTSA or SecAgg and the messages delivered to it (SpecClient) ----
    cl,           \* the client object and its scenario: [proto, user, threshold, nclients]
    cl_pc,        \* the call the client made last
    cl_e_shares,  \* the dict of encrypted messages delivered last, in its order: <<vuser, e>>
    cl_sk_shares, \* self.sk_shares: the key shares held, by user
    cl_b_shares,  \* self.b_shares: the b-mask shares held, by user
    cl_out,       \* what the last call did: [err, sk, b]
    cl_released,  \* the shares the client returned so far in the step: <<kind, v>>
    \* ---- one round of Owl or FTSA: the clients, the server and the test driver's loops (SpecOwl, SpecFTSA) ----
    pr,           \* the scenario: [proto, nclients, threshold, ve]
    pr_pc,        \* the phase the round reached
    pr_key,       \* self.key of every client
    pr_key_shares,\* key_shares / sk_shares of every client: holder -> owner -> share
    pr_x,         \* self.x of every client
    pr_b_mask,    \* FTSA: the b_mask every online client drew
    pr_prg,       \* FTSA: prg.eval_vector as a function of the seed
    pr_b_shares,  \* FTSA: self.b_shares of every online client: holder -> owner -> share
    pr_y,         \* all_y: the protected input of every client that encrypted
    pr_on,        \* the ids the server has as online, in its order
    pr_answers,   \* what the online clients returned from online_construct
    pr_out        \* what the server's online_construct did: [err, val]

ssVars == <<scheme, ss_pc, secret, threshold, coeffs, shares,
            lagList, lagOut, recList, recOut>>
vesVars == <<ves, nenc, sumV, sumE, decoded>>

jlVars == <<jl, jl_pc, hashOf, tau, userKeys, serverKey, dropped, keyShares,
            inputs, ys, zeroShares, combineOut, aggOut>>

fieldVars == <<f_pc, fx, fy, fcall, fres>>

fdhVars == <<fdh, digest, hres>>

paramVars == <<encA, encB, ppcall, ppres>>

addVars == <<ad_scheme, ad_t, ad_secrets, ad_last, ad_sum, ad_add, ad_rec>>

tagVars == <<tg_pp, tg_a, tg_b>>

clientVars == <<cl, cl_pc, cl_e_shares, cl_sk_shares, cl_b_shares, cl_out, cl_released>>

roundVars == <<pr, pr_pc, pr_key, pr_key_shares, pr_x, pr_b_mask, pr_prg, pr_b_shares, pr_y, pr_on, pr_answers, pr_out>>

vars == <<ssVars, vesVars, jlVars, fieldVars, fdhVars, paramVars, addVars, tagVars, clientVars, roundVars>>
notSS == <<vesVars, jlVars, fieldVars, fdhVars, paramVars, addVars, tagVars, clientVars, roundVars>>
notVES == <<ssVars, jlVars, fieldVars, fdhVars, paramVars, addVars, tagVars, clientVars, roundVars>>
notJL == <<ssVars, vesVars, fieldVars, fdhVars, paramVars, addVars, tagVars, clientVars, roundVars>>
notField == <<ssVars, vesVars, jlVars, fdhVars, paramVars, addVars, tagVars, clientVars, roundVars>>
notFDH == <<ssVars, vesVars, jlVars, fieldVars, paramVars, addVars, tagVars, clientVars, roundVars>>
notParams == <<ssVars, vesVars, jlVars, fieldVars, fdhVars, addVars, tagVars, clientVars, roundVars>>
notAdd == <<ssVars, vesVars, jlVars, fieldVars, fdhVars, paramVars, tagVars, clientVars, roundVars>>
notTag == <<ssVars, vesVars, jlVars, fieldVars, fdhVars, paramVars, addVars, clientVars, roundVars>>
notClient == <<ssVars, vesVars, jlVars, fieldVars, fdhVars, paramVars, addVars, tagVars, roundVars>>
notRound == <<ssVars, vesVars, jlVars, fieldVars, fdhVars, paramVars, addVars, tagVars, clientVars>>

(***************************************************************************)
(* Bounds of the model.                                                    *)
(***************************************************************************)
NUsersSS == 3       \* nusers of the sharing caller
MaxCoeff == 1       \* random coefficients are drawn from 0..MaxCoeff
MaxSecretI == 1     \* ISSS secrets are drawn from -MaxSecretI..MaxSecretI
FieldIdx == 1       \* which of FieldPrimes stands for the field's prime
MaxPtSize == 6      \* VES: ptsize is drawn from 1..MaxPtSize
MaxAddops == 3      \* VES: addops is drawn from 1..MaxAddops
MaxValueSize == 2   \* VES: valuesize is drawn from 1..MaxValueSize
MaxVectorSize == 2  \* VES: vectorsize is drawn from 1..MaxVectorSize
NUsersJL == 3       \* Joye-Libert: nusers is drawn from 2..NUsersJL
MaxInput == 1       \* Joye-Libert: small scalar inputs are 0..MaxInput
MaxByte == 1        \* field: the bytes of a byte string are 0..MaxByte
FDHBits == 24       \* FDH: bitsize (a digest is scaled to one byte)
CounterMax == 3     \* FDH: the largest counter to_bytes(1, "big") encodes
MaxSharings == 2    \* sums of sharings: how many sharings are added up
MaxSlot == 2        \* slot tags: the counters of the slots are 0..MaxSlot
MaxTagBits == 4     \* slot tags: pp.bits is drawn from 2..MaxTagBits
NClients == 3       \* protocols: the number of clients

(***************************************************************************)
(* Arithmetic helpers.                                                     *)
(***************************************************************************)
\* Python's //: floor division, for either sign of the divisor.
floordiv(a, b) == IF b < 0 THEN (0 - a) \div (0 - b) ELSE a \div b

\* math.factorial
RECURSIVE factorial(_)
factorial(n) == IF n <= 1 THEN 1 ELSE n * factorial(n - 1)

RECURSIVE egcd(_, _)
\* <<g, x, y>> with a*x + b*y = g = gcd(a, b), a, b >= 0
egcd(a, b) ==
    IF b = 0 THEN <<a, 1, 0>>
    ELSE LET r == egcd(b, a % b)
         IN <<r[1], r[3], r[2] - (a \div b) * r[3]>>

gcd(a, b) == egcd(IF a < 0 THEN 0 - a ELSE a, IF b < 0 THEN 0 - b ELSE b)[1]

\* gmpy2.invert(a, m): the inverse of a modulo m, or ZeroDivisionError.
\* The result record is [err, val].
gmpy2_invert(a, m) ==
    LET r == egcd(a % m, m)
    IN IF r[1] # 1 THEN [err |-> "ZeroDivisionError", val |-> 0]
       ELSE [err |-> "", val |-> r[2] % m]

\* mutant: no error, 0 returned where there is no inverse
invert_zero(a, b) == [err |-> "", val |-> gmpy2_invert(a, b).val]

\* utils.invert: gmpy2.invert, with a zero result turned into an error.
invert(a, b) ==
    LET s == gmpy2_invert(a, b)
    IN IF s.err = "" /\ s.val = 0
       THEN [err |-> "ZeroDivisionError", val |-> 0] ELSE s

(***************************************************************************)
(* Field arithmetic (utils.PField).  An element is its _value; the prime   *)
(* of the modelled P64Field is FieldP.                                     *)
(***************************************************************************)
FieldPrimes == <<5, 7, 11, 13>>
FieldP == FieldPrimes[FieldIdx]

\* PField.__init__ stores the integer as given (no reduction).
PField(encoded_value) == encoded_value
PField_mul(a, b) == (a * b) % FieldP
PField_add(a, b) == (a + b) % FieldP
PField_sub(a, b) == (a - b) % FieldP
\* PField.inverse: [err, val]
PField_inverse(a) ==
    IF a = 0 THEN [err |-> "ValueError", val |-> 0] ELSE invert(a, FieldP)

RECURSIVE from_bytes(_, _)
\* int.from_bytes(b, "big"), acc the value of the bytes read so far
from_bytes(b, acc) ==
    IF b = <<>> THEN acc ELSE from_bytes(Tail(b), 256 * acc + Head(b))

\* PField.__init__ on a byte string: the integer stored as read
PField_bytes(encoded_value) == from_bytes(encoded_value, 0)

\* PField.__div__: [err, val]
PField_div(a, term) ==
    LET i == invert(term, FieldP)
    IN IF i.err # "" THEN i ELSE [err |-> "", val |-> (a * i.val) % FieldP]

\* PField.__mod__: [err, val]; Python's % takes the sign of the divisor
PField_mod(a, mod) ==
    IF mod = 0 THEN [err |-> "ZeroDivisionError", val |-> 0]
    ELSE [err |-> "", val |-> a - mod * floordiv(a, mod)]

(***************************************************************************)
(* Lists of shares.  A share is a record [idx, value].                     *)
(***************************************************************************)
Share(idx, value) == [idx |-> idx, value |-> value]

Indices(list) == [k \in 1..Len(list) |-> list[k].idx]

\* the "if any(y == idx for y in indices): raise ValueError" loops
HasDuplicate(indices) ==
    \E a, b \in 1..Len(indices) : a < b /\ indices[a] = indices[b]

IndexSet(list) == {list[k].idx : k \in 1..Len(list)}

NoResult == [err |-> "none", val |-> 0]
NoLag == [err |-> "none", coef |-> <<>>]
Raise(e) == [err |-> e, val |-> 0]
Return(v) == [err |-> "", val |-> v]

(***************************************************************************)
(* Shamir secret sharing over the field (ss/shamir_ss.py).                 *)
(***************************************************************************)
RECURSIVE SSS_horner(_, _, _)
\* the loop "for coeff in coeffs: share = idx * share + coeff"
SSS_horner(idx, cs, share) ==
    IF cs = <<>> THEN share
    ELSE SSS_horner(idx, Tail(cs), PField_add(PField_mul(idx, share), Head(cs)))

SSS_make_share(user, cs) == SSS_horner(PField(user), cs, PField(0))

\* SSS.share; rnd stands for the threshold-1 values rng(nbbytes) returns
SSS_share(s, t, nusers, rnd) ==
    LET cs == Append(rnd, PField(s))
    IN [i \in 1..nusers |-> Share(i, SSS_make_share(i, cs))]

RECURSIVE SSS_numerator(_, _, _)
SSS_numerator(indices, j, m) ==
    IF m = 0 THEN PField(1)
    ELSE LET rest == SSS_numerator(indices, j, m - 1)
         IN IF m # j THEN PField_mul(rest, indices[m]) ELSE rest

RECURSIVE SSS_denominator_swapped(_, _, _)
\* mutant: the difference taken the other way round, x_j - x_m
SSS_denominator_swapped(indices, j, m) ==
    IF m = 0 THEN PField(1)
    ELSE LET rest == SSS_denominator_swapped(indices, j, m - 1)
         IN IF m # j
            THEN PField_mul(rest, PField_sub(indices[j], indices[m]))
            ELSE rest

RECURSIVE SSS_denominator(_, _, _)
SSS_denominator(indices, j, m) ==
    IF m = 0 THEN PField(1)
    ELSE LET rest == SSS_denominator(indices, j, m - 1)
         IN IF m # j
            THEN PField_mul(rest, PField_sub(indices[m], indices[j]))
            ELSE rest

\* mutant: the entry of the first share of the list, for every share
SSS_coefficient_first(indices, j) ==
    LET k == Len(indices)
        inv == PField_inverse(SSS_denominator(indices, 1, k))
    IN IF inv.err # "" THEN inv
       ELSE Return(PField_mul(SSS_numerator(indices, 1, k), inv.val))

\* one entry of the dict: numerator * denominator.inverse()
SSS_coefficient(indices, j) ==
    LET k == Len(indices)
        inv == PField_inverse(SSS_denominator(indices, j, k))
    IN IF inv.err # "" THEN inv
       ELSE Return(PField_mul(SSS_numerator(indices, j, k), inv.val))

\* SSS.lagrange: [err, coef], coef the dict from index to coefficient
SSS_lagrange(list) ==
    LET indices == [k \in 1..Len(list) |-> PField(list[k].idx)]
        k == Len(list)
    IN IF HasDuplicate(indices) THEN [err |-> "ValueError", coef |-> <<>>]
       ELSE IF \E j \in 1..k : SSS_coefficient(indices, j).err # ""
       THEN [err |-> "ValueError", coef |-> <<>>]
       ELSE [err |-> "",
             coef |-> [x \in {indices[j] : j \in 1..k} |->
                         SSS_coefficient(indices,
                             CHOOSE j \in 1..k : indices[j] = x).val]]

RECURSIVE SSS_sum(_, _, _)
\* the loop "result += y_j * lagcoefs[x_j]" over the first k shares
SSS_sum(list, lagcoefs, k) ==
    IF k = 0 THEN PField(0)
    ELSE PField_add(SSS_sum(list, lagcoefs, k - 1),
                    PField_mul(list[k].value, lagcoefs[PField(list[k].idx)]))

\* mutant: the quorum assertion left out
SSS_reconstruct_noassert(list, t, lagcoefs) ==
    IF HasDuplicate(Indices(list)) THEN Raise("ValueError")
    ELSE IF \E k \in 1..Len(list) : list[k].idx \notin DOMAIN lagcoefs
    THEN Raise("KeyError")
    ELSE Return(SSS_sum(list, lagcoefs, Len(list)))

\* SSS.reconstruct: [err, val]
SSS_reconstruct(list, t, lagcoefs) ==
    IF ~(Len(list) >= t) THEN Raise("AssertionError")
    ELSE IF HasDuplicate(Indices(list)) THEN Raise("ValueError")
    ELSE IF \E k \in 1..Len(list) : list[k].idx \notin DOMAIN lagcoefs
    THEN Raise("KeyError")
    ELSE Return(SSS_sum(list, lagcoefs, Len(list)))

(***************************************************************************)
(* Integer secret sharing (ss/integer_ss.py).                              *)
(***************************************************************************)
RECURSIVE int_horner(_, _, _)
int_horner(idx, cs, share) ==
    IF cs = <<>> THEN share
    ELSE int_horner(idx, Tail(cs), idx * share + Head(cs))

ISSS_make_share(idx, cs) == int_horner(idx, cs, 0)

\* mutant: the secret placed as the constant term without the factor delta
ISSS_share_unscaled(s, t, nusers, rnd) ==
    LET cs == Append(rnd, s)
    IN [i \in 1..nusers |-> Share(i, ISSS_make_share(i, cs))]

\* ISSS.share; rnd stands for the threshold-1 signed random coefficients
ISSS_share(s, t, nusers, rnd) ==
    LET delta == factorial(nusers)
        cs == Append(rnd, s * delta)
    IN [i \in 1..nusers |-> Share(i, ISSS_make_share(i, cs))]

RECURSIVE int_numerator(_, _, _)
int_numerator(indices, j, m) ==
    IF m = 0 THEN 1
    ELSE LET rest == int_numerator(indices, j, m - 1)
         IN IF m # j THEN rest * indices[m] ELSE rest

RECURSIVE int_denominator(_, _, _)
int_denominator(indices, j, m) ==
    IF m = 0 THEN 1
    ELSE LET rest == int_denominator(indices, j, m - 1)
         IN IF m # j THEN rest * (indices[m] - indices[j]) ELSE rest

\* mutant: the division done before the multiplication by delta
ISSS_coefficient_divfirst(indices, j, delta) ==
    delta * floordiv(int_numerator(indices, j, Len(indices)),
                     int_denominator(indices, j, Len(indices)))

\* "(delta * numerator) // denominator"
ISSS_coefficient(indices, j, delta) ==
    floordiv(delta * int_numerator(indices, j, Len(indices)),
             int_denominator(indices, j, Len(indices)))

\* ISSS.lagrange: [err, coef]
ISSS_lagrange(list, delta) ==
    LET indices == Indices(list)
        k == Len(list)
    IN IF HasDuplicate(indices) THEN [err |-> "ValueError", coef |-> <<>>]
       ELSE [err |-> "",
             coef |-> [x \in {indices[j] : j \in 1..k} |->
                         ISSS_coefficient(indices,
                             CHOOSE j \in 1..k : indices[j] = x, delta)]]

RECURSIVE int_sum(_, _, _)
\* the loop "r = y_j * lag_coeffs[x_j]; result += r"
int_sum(list, lag_coeffs, k) ==
    IF k = 0 THEN 0
    ELSE int_sum(list, lag_coeffs, k - 1)
         + list[k].value * lag_coeffs[list[k].idx]

\* mutant: the duplicate check left out
ISSS_reconstruct_nodup(list, t, delta, lag_coeffs) ==
    IF ~(Len(list) >= t) THEN Raise("AssertionError")
    ELSE IF \E k \in 1..Len(list) : list[k].idx \notin DOMAIN lag_coeffs
    THEN Raise("KeyError")
    ELSE Return(floordiv(int_sum(list, lag_coeffs, Len(list)), delta * delta))

\* ISSS.reconstruct: [err, val]
ISSS_reconstruct(list, t, delta, lag_coeffs) ==
    IF ~(Len(list) >= t) THEN Raise("AssertionError")
    ELSE IF HasDuplicate(Indices(list)) THEN Raise("ValueError")
    ELSE IF \E k \in 1..Len(list) : list[k].idx \notin DOMAIN lag_coeffs
    THEN Raise("KeyError")
    ELSE Return(floordiv(int_sum(list, lag_coeffs, Len(list)), delta * delta))

(***************************************************************************)
(* Secret sharing over Z_{n*phi_n} (ss/shoup_ss.py).                       *)
(***************************************************************************)
\* Stand-ins for the two safe primes of get_two_safe_primes: the smallest
\* safe primes, 5 = 2*2+1 and 7 = 2*3+1.
SafePrimes == <<5, 7>>
RingN == SafePrimes[1] * SafePrimes[2]
RingN2 == RingN * RingN
\* TD_TJLS.setup: phi_n = pp * qq with pp = (p-1)//2, qq = (q-1)//2
RingPhi == ((SafePrimes[1] - 1) \div 2) * ((SafePrimes[2] - 1) \div 2)

\* make_share of ShoupSSS.share: Horner, then "% (self.n * phi_n)"
Shoup_make_share(idx, cs, n, phi_n) == int_horner(idx, cs, 0) % (n * phi_n)

\* ShoupSSS.share; rnd stands for the threshold-1 random coefficients
Shoup_share(s, t, nusers, phi_n, n, rnd) ==
    LET cs == Append(rnd, s)
    IN [i \in 1..nusers |-> Share(i, Shoup_make_share(i, cs, n, phi_n))]

\* ShoupSSS.lagrange: the code of ISSS.lagrange, repeated
Shoup_lagrange(list, delta) ==
    LET indices == Indices(list)
        k == Len(list)
    IN IF HasDuplicate(indices) THEN [err |-> "ValueError", coef |-> <<>>]
       ELSE [err |-> "",
             coef |-> [x \in {indices[j] : j \in 1..k} |->
                         floordiv(delta * int_numerator(indices,
                                      CHOOSE j \in 1..k : indices[j] = x, k),
                                  int_denominator(indices,
                                      CHOOSE j \in 1..k : indices[j] = x, k))]]

\* ShoupSSS.reconstruct: [err, val]
Shoup_reconstruct(list, t, delta, lag_coeffs) ==
    IF ~(Len(list) >= t) THEN Raise("AssertionError")
    ELSE IF HasDuplicate(Indices(list)) THEN Raise("ValueError")
    ELSE IF \E k \in 1..Len(list) : list[k].idx \notin DOMAIN lag_coeffs
    THEN Raise("KeyError")
    ELSE Return(floordiv(int_sum(list, lag_coeffs, Len(list)), delta))

(***************************************************************************)
(* SpecSS: a caller of one scheme: share, then lagrange on a list of the   *)
(* returned shares, then reconstruct with the coefficients it got.         *)
(***************************************************************************)
\* the lists of shares a caller may pass: any selection, in any order, with
\* or without repetition, of at most nusers of the shares returned
IdxLists == UNION {[1..k -> 1..NUsersSS] : k \in 0..NUsersSS}
ShareList(il) == [k \in 1..Len(il) |-> shares[il[k]]]

\* the lists passed to reconstruct after lagrange(list): the same list, the
\* list without its last share, or the list with one more share
RecLists(list) ==
    {list}
    \cup (IF Len(list) > 0 THEN {SubSeq(list, 1, Len(list) - 1)} ELSE {})
    \cup {Append(list, shares[i]) : i \in 1..NUsersSS}

Thresholds == 1..NUsersSS
FieldCoeffs == 0..MaxCoeff
SignedCoeffs == (0 - MaxCoeff)..MaxCoeff
FieldSecrets == 0..(FieldP - 1)
IntSecrets == (0 - MaxSecretI)..MaxSecretI
\* secrets of the ring scheme: both ends of 0 .. n*phi_n - 1
RingSecrets == (0..MaxSecretI)
               \cup {RingN * RingPhi - 1 - k : k \in 0..MaxSecretI}

\* no scheme in use yet
IdleSS ==
    /\ scheme = "none"
    /\ ss_pc = "start"
    /\ secret = 0
    /\ threshold = 0
    /\ coeffs = <<>>
    /\ shares = <<>>
    /\ lagList = <<>>
    /\ lagOut = NoLag
    /\ recList = <<>>
    /\ recOut = NoResult

\* sss.share(secret, threshold, nusers)
SSSShare ==
    /\ ss_pc = "start"
    /\ \E s \in FieldSecrets, t \in Thresholds :
         \E rnd \in [1..(t - 1) -> FieldCoeffs] :
            /\ secret' = s
            /\ threshold' = t
            /\ coeffs' = rnd
            /\ shares' = SSS_share(s, t, NUsersSS, rnd)
    /\ scheme' = "SSS"
    /\ ss_pc' = "shared"
    /\ UNCHANGED <<lagList, lagOut, recList, recOut>>
    /\ UNCHANGED notSS

\* isss.share(secret, threshold, nusers)
ISSSShare ==
    /\ ss_pc = "start"
    /\ \E s \in IntSecrets, t \in Thresholds :
         \E rnd \in [1..(t - 1) -> SignedCoeffs] :
            /\ secret' = s
            /\ threshold' = t
            /\ coeffs' = rnd
            /\ shares' = ISSS_share(s, t, NUsersSS, rnd)
    /\ scheme' = "ISSS"
    /\ ss_pc' = "shared"
    /\ UNCHANGED <<lagList, lagOut, recList, recOut>>
    /\ UNCHANGED notSS

\* shoup_ss.share(secret, threshold, nusers, phi_n)
ShoupShare ==
    /\ ss_pc = "start"
    /\ \E s \in RingSecrets, t \in Thresholds :
         \E rnd \in [1..(t - 1) -> FieldCoeffs] :
            /\ secret' = s
            /\ threshold' = t
            /\ coeffs' = rnd
            /\ shares' = Shoup_share(s, t, NUsersSS, RingPhi, RingN, rnd)
    /\ scheme' = "Shoup"
    /\ ss_pc' = "shared"
    /\ UNCHANGED <<lagList, lagOut, recList, recOut>>
    /\ UNCHANGED notSS

\* sss.lagrange(list)
SSSLagrange ==
    /\ ss_pc = "shared"
    /\ scheme = "SSS"
    /\ \E il \in IdxLists :
         /\ lagList' = ShareList(il)
         /\ lagOut' = SSS_lagrange(ShareList(il))
    /\ ss_pc' = "lagged"
    /\ UNCHANGED <<scheme, secret, threshold, coeffs, shares, recList, recOut>>
    /\ UNCHANGED notSS

\* isss.lagrange(list, delta), delta = factorial(nusers)
ISSSLagrange ==
    /\ ss_pc = "shared"
    /\ scheme = "ISSS"
    /\ \E il \in IdxLists :
         /\ lagList' = ShareList(il)
         /\ lagOut' = ISSS_lagrange(ShareList(il), factorial(NUsersSS))
    /\ ss_pc' = "lagged"
    /\ UNCHANGED <<scheme, secret, threshold, coeffs, shares, recList, recOut>>
    /\ UNCHANGED notSS

\* shoup_ss.lagrange(list, delta)
ShoupLagrange ==
    /\ ss_pc = "shared"
    /\ scheme = "Shoup"
    /\ \E il \in IdxLists :
         /\ lagList' = ShareList(il)
         /\ lagOut' = Shoup_lagrange(ShareList(il), factorial(NUsersSS))
    /\ ss_pc' = "lagged"
    /\ UNCHANGED <<scheme, secret, threshold, coeffs, shares, recList, recOut>>
    /\ UNCHANGED notSS

\* sss.reconstruct(list, threshold, lag_coeffs)
SSSReconstruct ==
    /\ ss_pc = "lagged"
    /\ scheme = "SSS"
    /\ \E list \in RecLists(lagList) :
         /\ recList' = list
         /\ recOut' = SSS_reconstruct(list, threshold, lagOut.coef)
    /\ ss_pc' = "done"
    /\ UNCHANGED <<scheme, secret, threshold, coeffs, shares, lagList, lagOut>>
    /\ UNCHANGED notSS

\* isss.reconstruct(list, threshold, delta, lag_coeffs)
ISSSReconstruct ==
    /\ ss_pc = "lagged"
    /\ scheme = "ISSS"
    /\ \E list \in RecLists(lagList) :
         /\ recList' = list
         /\ recOut' = ISSS_reconstruct(list, threshold, factorial(NUsersSS),
                                       lagOut.coef)
    /\ ss_pc' = "done"
    /\ UNCHANGED <<scheme, secret, threshold, coeffs, shares, lagList, lagOut>>
    /\ UNCHANGED notSS

\* shoup_ss.reconstruct(list, threshold, delta, lag_coeffs)
ShoupReconstruct ==
    /\ ss_pc = "lagged"
    /\ scheme = "Shoup"
    /\ \E list \in RecLists(lagList) :
         /\ recList' = list
         /\ recOut' = Shoup_reconstruct(list, threshold, factorial(NUsersSS),
                                        lagOut.coef)
    /\ ss_pc' = "done"
    /\ UNCHANGED <<scheme, secret, threshold, coeffs, shares, lagList, lagOut>>
    /\ UNCHANGED notSS


(***************************************************************************)
(* Vector encoding (joye_libert/vector_encoding.py).                       *)
(***************************************************************************)
\* ceil(log2(n)) for n >= 1
ceil_log2(n) == CHOOSE k \in 0..n : 2^k >= n /\ (k = 0 \/ 2^(k - 1) < n)

RECURSIVE BitOr(_, _)
\* Python's | on non-negative integers
BitOr(a, b) ==
    IF a = 0 THEN b
    ELSE IF b = 0 THEN a
    ELSE 2 * BitOr(a \div 2, b \div 2)
         + (IF a % 2 = 1 \/ b % 2 = 1 THEN 1 ELSE 0)

\* the value of encoded_size before the first encode (None)
None == 0 - 1

\* VES.__init__: elementsize and compratio
VES_elementsize(addops, valuesize) == valuesize + ceil_log2(addops)
VES_compratio(ptsize, addops, valuesize) ==
    ptsize \div VES_elementsize(addops, valuesize)

\* VES.__init__, for ptsize >= elementsize (with compratio = 0 the constructor
\* raises ZeroDivisionError and there is no object)
VES(ptsize, addops, valuesize, vectorsize) ==
    LET compratio == VES_compratio(ptsize, addops, valuesize)
    IN [ptsize |-> ptsize, addops |-> addops, valuesize |-> valuesize,
        vectorsize |-> vectorsize,
        elementsize |-> VES_elementsize(addops, valuesize),
        compratio |-> compratio,
        numbatches |-> (vectorsize + compratio - 1) \div compratio,
        encoded_size |-> None]

RECURSIVE VES_batch_from(_, _, _, _)
\* the loop "a |= v << self.elementsize * i" from position i on
VES_batch_from(ve, V, i, a) ==
    IF i > Len(V) THEN a
    ELSE VES_batch_from(ve, V, i + 1,
                        BitOr(a, V[i] * 2^(ve.elementsize * (i - 1))))

\* VES._batch
VES_batch(ve, V) == VES_batch_from(ve, V, 1, 0)

RECURSIVE VES_encode(_, _)
\* VES.encode: groups of compratio elements, the last group may be shorter
VES_encode(ve, V) ==
    IF V = <<>> THEN <<>>
    ELSE IF Len(V) <= ve.compratio THEN <<VES_batch(ve, V)>>
    ELSE <<VES_batch(ve, SubSeq(V, 1, ve.compratio))>>
         \o VES_encode(ve, SubSeq(V, ve.compratio + 1, Len(V)))

RECURSIVE VES_debatch(_, _)
\* VES._debatch: "while b != 0: v = mask & b; ...; b >>= self.elementsize"
VES_debatch(ve, b) ==
    IF b = 0 THEN <<>>
    ELSE <<b % 2^ve.elementsize>> \o VES_debatch(ve, b \div 2^ve.elementsize)

RECURSIVE VES_decode(_, _)
\* VES.decode
VES_decode(ve, E) ==
    IF E = <<>> THEN <<>>
    ELSE VES_debatch(ve, Head(E)) \o VES_decode(ve, Tail(E))

(***************************************************************************)
(* SpecVES: a caller that encodes up to addops vectors of one length, adds *)
(* the encodings batch by batch (what the aggregate of the ciphertexts     *)
(* decrypts to) and decodes the sum.                                       *)
(***************************************************************************)
VESConfigs ==
    {VES(c[1], c[2], c[3], c[4]) :
        c \in {d \in (1..MaxPtSize) \X (1..MaxAddops) \X (1..MaxValueSize)
                      \X (1..MaxVectorSize) :
                  VES_compratio(d[1], d[2], d[3]) > 0}}

\* the vectors within the configured bounds: at most vectorsize elements,
\* each below 2^valuesize
Vectors(ve) ==
    UNION {[1..k -> 0..(2^ve.valuesize - 1)] : k \in 0..ve.vectorsize}

AddSeq(a, b) == [k \in 1..Len(a) |-> a[k] + b[k]]

NotDecoded == [done |-> FALSE, V |-> <<>>]

IdleVES ==
    /\ ves = VES(1, 1, 1, 1)
    /\ nenc = 0
    /\ sumV = <<>>
    /\ sumE = <<>>
    /\ decoded = NotDecoded

\* E = ve.encode(V), added to the running sums
VESEncode ==
    /\ ~decoded.done
    /\ nenc < ves.addops
    /\ \E V \in Vectors(ves) :
         /\ nenc > 0 => Len(V) = Len(sumV)
         /\ LET E == VES_encode(ves, V)
            IN /\ ves' = [ves EXCEPT !.encoded_size = Len(E)]
               /\ sumE' = IF nenc = 0 THEN E ELSE AddSeq(sumE, E)
               /\ sumV' = IF nenc = 0 THEN V ELSE AddSeq(sumV, V)
    /\ nenc' = nenc + 1
    /\ UNCHANGED decoded
    /\ UNCHANGED notVES

\* ve.decode(sum of the encodings)
VESDecode ==
    /\ ~decoded.done
    /\ nenc > 0
    /\ decoded' = [done |-> TRUE, V |-> VES_decode(ves, sumE)]
    /\ UNCHANGED <<ves, nenc, sumV, sumE>>
    /\ UNCHANGED notVES

(***************************************************************************)
(* Joye-Libert scheme (joye_libert/jl_utils.py, jl.py).  The modulus is    *)
(* RingN = 5 * 7 for the three schemes; a ciphertext is a record           *)
(* [pp, ciphertext].                                                       *)
(***************************************************************************)
RECURSIVE pow_nonneg(_, _, _)
\* a^e mod m for e >= 0, by squaring
pow_nonneg(a, e, m) ==
    IF e = 0 THEN 1 % m
    ELSE LET h == pow_nonneg(a, e \div 2, m)
             hh == (h * h) % m
         IN IF e % 2 = 0 THEN hh ELSE (hh * a) % m

\* gmpy2.powmod: a negative exponent takes the inverse of the base (every
\* base of the model is a unit of Z_{n^2}: a hash value or a ciphertext)
gmpy2_powmod(a, e, m) ==
    IF e >= 0 THEN pow_nonneg(a % m, e, m)
    ELSE pow_nonneg(gmpy2_invert(a, m).val, 0 - e, m)

\* utils.powmod
powmod(a, b, c) == IF a = 1 THEN 1 ELSE gmpy2_powmod(a, b, c)

\* PublicParamJL.__init__ (H is the state variable hashOf)
PublicParamJL(n, bits) == [n |-> n, n_squared |-> n * n, bits |-> bits]

\* mutant: the default comparison of two objects
pp_is(a, b) == a = b

\* PublicParamJL.__eq__
pp_eq(a, b) == a.n = b.n

\* the bit length of n
bit_length(n) == CHOOSE k \in 0..n : 2^k > n /\ (k = 0 \/ 2^(k - 1) <= n)

\* the public parameters of setup: n = p*q, bits = lmbda // 2 = n.bit_length()
SetupPP == PublicParamJL(RingN, bit_length(RingN))

\* fdh.H(t)
H(t) == hashOf[t]

EncryptedNumberJL(pp, ciphertext) == [pp |-> pp, ciphertext |-> ciphertext]

\* UserKeyJL.__init__
UserKeyJL(pp, s) == [pp |-> pp, s |-> s]

\* mutant: the server key kept as a residue modulo n^2
ServerKeyJL_reduced(pp, s) == [pp |-> pp, s |-> s % pp.n_squared]

\* ServerKeyJL.__init__
ServerKeyJL(pp, s) == [pp |-> pp, s |-> s]

\* mutant: the counter not shifted
SlotTag_unshifted(pp, counter, t) == BitOr(counter, t)

\* the slot tag "(counter << self.pp.bits // 2) | tau"
SlotTag(pp, counter, t) == BitOr(counter * 2^(pp.bits \div 2), t)

\* UserKeyJL._encrypt
UserKeyJL_encrypt1(sk, plaintext, t) ==
    LET nude_ciphertext == (sk.pp.n * plaintext + 1) % sk.pp.n_squared
        r == gmpy2_powmod(H(t), sk.s, sk.pp.n_squared)
    IN EncryptedNumberJL(sk.pp, (nude_ciphertext * r) % sk.pp.n_squared)

\* UserKeyJL.encrypt, plaintext an integer
UserKeyJL_encrypt(sk, plaintext, t) == UserKeyJL_encrypt1(sk, plaintext, t)

\* UserKeyJL.encrypt, plaintext a list
UserKeyJL_encrypt_list(sk, plaintext, t) ==
    [i \in 1..Len(plaintext) |->
        UserKeyJL_encrypt1(sk, plaintext[i], SlotTag(sk.pp, i - 1, t))]

\* mutant: the plaintext read as (V - 1) % n, without the division by n
ServerKeyJL_raw_decrypt_nodiv(sk, ciphertext, t, delta0, ttp) ==
    LET delta == IF ~ttp /\ delta0 # 1 THEN delta0 * delta0 ELSE delta0
        V == (ciphertext * gmpy2_powmod(H(t), delta * sk.s, sk.pp.n_squared))
                 % sk.pp.n_squared
        X == (V - 1) % sk.pp.n
        inv == gmpy2_invert(delta, sk.pp.n_squared)
    IN IF inv.err # "" THEN Raise(inv.err)
       ELSE Return((X * inv.val) % sk.pp.n)

\* ServerKeyJL._raw_decrypt: [err, val]
ServerKeyJL_raw_decrypt(sk, ciphertext, t, delta0, ttp) ==
    LET delta == IF ~ttp /\ delta0 # 1 THEN delta0 * delta0 ELSE delta0
        V == (ciphertext * gmpy2_powmod(H(t), delta * sk.s, sk.pp.n_squared))
                 % sk.pp.n_squared
        X == ((V - 1) \div sk.pp.n) % sk.pp.n
        inv == gmpy2_invert(delta, sk.pp.n_squared)
    IN IF inv.err # "" THEN Raise(inv.err)
       ELSE Return((X * inv.val) % sk.pp.n)

\* ServerKeyJL._decrypt: [err, val]
ServerKeyJL_decrypt1(sk, cipher, t, delta, ttp) ==
    IF ~pp_eq(sk.pp, cipher.pp) THEN Raise("ValueError")
    ELSE ServerKeyJL_raw_decrypt(sk, cipher.ciphertext, t, delta, ttp)

\* ServerKeyJL.decrypt, cipher one encrypted number: [err, val]
ServerKeyJL_decrypt(sk, cipher, t, delta, ttp) ==
    ServerKeyJL_decrypt1(sk, cipher, t, delta, ttp)

\* ServerKeyJL.decrypt, cipher a list: [err, val], val the list of plaintexts
ServerKeyJL_decrypt_list(sk, cipher, t, delta, ttp) ==
    LET pt == [i \in 1..Len(cipher) |->
                 ServerKeyJL_decrypt1(sk, cipher[i],
                                      SlotTag(sk.pp, i - 1, t), delta, ttp)]
    IN IF \E i \in 1..Len(cipher) : pt[i].err # ""
       THEN Raise(pt[CHOOSE i \in 1..Len(cipher) : pt[i].err # ""].err)
       ELSE Return([i \in 1..Len(cipher) |-> pt[i].val])

\* EncryptedNumberJL._add_encrypted: [err, val]
add_encrypted(a, b) ==
    IF ~pp_eq(a.pp, b.pp) THEN Raise("ValueError")
    ELSE Return(EncryptedNumberJL(a.pp,
                    (a.ciphertext * b.ciphertext) % a.pp.n_squared))

RECURSIVE enc_sum(_, _)
\* "y = list[0]; for y_u in list[1:]: y += y_u" over the first k: [err, val]
enc_sum(list, k) ==
    IF k = 1 THEN Return(list[1])
    ELSE LET r == enc_sum(list, k - 1)
         IN IF r.err # "" THEN r ELSE add_encrypted(r.val, list[k])

\* the i-th elements of the vectors of a list
Column(list, i) == [u \in 1..Len(list) |-> list[u][i]]

\* the slot-wise sums of a list of protected vectors: [err, val]
enc_sum_list(list) ==
    LET cols == [i \in 1..Len(list[1]) |-> enc_sum(Column(list, i), Len(list))]
    IN IF \E i \in DOMAIN cols : cols[i].err # ""
       THEN Raise("ValueError")
       ELSE Return([i \in DOMAIN cols |-> cols[i].val])

\* JLS.protect, x_u_tau an integer: [err, val]
JLS_protect(pp, sk_u, t, x_u_tau) ==
    IF ~pp_eq(sk_u.pp, pp) THEN Raise("AssertionError")
    ELSE Return(UserKeyJL_encrypt(sk_u, x_u_tau, t))

\* JLS.protect, x_u_tau a list: [err, val]
JLS_protect_list(ve, pp, sk_u, t, x_u_tau) ==
    IF ~pp_eq(sk_u.pp, pp) THEN Raise("AssertionError")
    ELSE Return(UserKeyJL_encrypt_list(sk_u, VES_encode(ve, x_u_tau), t))

\* JLS.agg, list_y_u_tau a list of encrypted numbers: [err, val]
JLS_agg(pp, sk_0, t, list_y_u_tau) ==
    IF ~pp_eq(sk_0.pp, pp) \/ ~(Len(list_y_u_tau) > 0)
    THEN Raise("AssertionError")
    ELSE LET y_tau == enc_sum(list_y_u_tau, Len(list_y_u_tau))
         IN IF y_tau.err # "" THEN y_tau
            ELSE ServerKeyJL_decrypt(sk_0, y_tau.val, t, 1, FALSE)

\* JLS.agg, list_y_u_tau a list of protected vectors: [err, val]
JLS_agg_list(ve, pp, sk_0, t, list_y_u_tau) ==
    IF ~pp_eq(sk_0.pp, pp) \/ ~(Len(list_y_u_tau) > 0)
    THEN Raise("AssertionError")
    ELSE IF \E u \in 1..Len(list_y_u_tau) :
                Len(list_y_u_tau[u]) # Len(list_y_u_tau[1])
    THEN Raise("AssertionError")
    ELSE LET y_tau == enc_sum_list(list_y_u_tau)
         IN IF y_tau.err # "" THEN y_tau
            ELSE LET d == ServerKeyJL_decrypt_list(sk_0, y_tau.val, t,
                                                   1, FALSE)
                 IN IF d.err # "" THEN d
                    ELSE Return(VES_decode(ve, d.val))

(***************************************************************************)
(* Threshold Joye-Libert (joye_libert/tjl/tjl.py, td_tjl.py).  An optional *)
(* argument is a record [err, val]: NoResult stands for None.              *)
(***************************************************************************)
RECURSIVE share_sum(_, _)
\* "sum_share = list[0]; for share in list[1:]: sum_share += share" with
\* IShare.__add__ / ShoupShare.__add__: [err, val]
share_sum(list, k) ==
    IF k = 1 THEN Return(list[1])
    ELSE LET r == share_sum(list, k - 1)
         IN IF r.err # "" THEN r
            ELSE IF r.val.idx # list[k].idx THEN Raise("AssertionError")
            ELSE Return(Share(r.val.idx, r.val.value + list[k].value))

\* TJLS.share_protect, self.ve None: [err, val]
TJLS_share_protect(pp, list_sk_v_u_shares, t) ==
    IF Len(list_sk_v_u_shares) = 0 THEN Raise("IndexError")
    ELSE LET sum_share == share_sum(list_sk_v_u_shares,
                                    Len(list_sk_v_u_shares))
         IN IF sum_share.err # "" THEN sum_share
            ELSE LET key_share == UserKeyJL(pp, sum_share.val.value)
                     y == JLS_protect(pp, key_share, t, 0)
                 IN IF y.err # "" THEN y
                    ELSE Return(Share(sum_share.val.idx, y.val))

\* TJLS.share_protect, self.ve set: [err, val], val a list of shares
TJLS_share_protect_list(ve, pp, list_sk_v_u_shares, t) ==
    IF Len(list_sk_v_u_shares) = 0 THEN Raise("IndexError")
    ELSE LET sum_share == share_sum(list_sk_v_u_shares,
                                    Len(list_sk_v_u_shares))
         IN IF sum_share.err # "" THEN sum_share
            ELSE LET key_share == UserKeyJL(pp, sum_share.val.value)
                     y == JLS_protect_list(ve, pp, key_share, t,
                              [i \in 1..ve.vectorsize |-> 0])
                 IN IF y.err # "" THEN y
                    ELSE Return([i \in 1..Len(y.val) |->
                                    Share(sum_share.val.idx, y.val[i])])

\* TD_TJLS.share_protect: the code of TJLS.share_protect, repeated
TD_TJLS_share_protect(pp, list_sk_v_ushare, t) ==
    TJLS_share_protect(pp, list_sk_v_ushare, t)

TD_TJLS_share_protect_list(ve, pp, list_sk_v_ushare, t) ==
    TJLS_share_protect_list(ve, pp, list_sk_v_ushare, t)

RECURSIVE TJLS_product(_, _, _, _)
\* "r = powmod(y_j.ciphertext, lag_coeffs[x_j], pp.n_squared);
\*  product = (product * r) % pp.n_squared" with gmpy2.powmod
TJLS_product(pp, list, lag_coeffs, k) ==
    IF k = 0 THEN 1
    ELSE (TJLS_product(pp, list, lag_coeffs, k - 1)
          * gmpy2_powmod(list[k].value.ciphertext,
                         lag_coeffs[list[k].idx], pp.n_squared))
         % pp.n_squared

RECURSIVE TD_TJLS_product(_, _, _, _)
\* the same loop with utils.powmod
TD_TJLS_product(pp, list, lag_coeffs, k) ==
    IF k = 0 THEN 1
    ELSE (TD_TJLS_product(pp, list, lag_coeffs, k - 1)
          * powmod(list[k].value.ciphertext,
                   lag_coeffs[list[k].idx], pp.n_squared))
         % pp.n_squared

\* mutant: no assertion on the number of shares
TJLS_reconstruct_any(pp, list, thr, delta, lag_coeffs) ==
    IF HasDuplicate(Indices(list)) THEN Raise("ValueError")
    ELSE LET lag == IF DOMAIN lag_coeffs = {}
                    THEN ISSS_lagrange(list, delta).coef
                    ELSE lag_coeffs
         IN IF \E k \in 1..Len(list) : list[k].idx \notin DOMAIN lag
            THEN Raise("KeyError")
            ELSE Return(EncryptedNumberJL(pp,
                            TJLS_product(pp, list, lag, Len(list))))

\* _reconstruct of TJLS.share_combine; lag_coeffs <<>> stands for a None or
\* empty argument ("if not lag_coeffs"): [err, val]
TJLS_reconstruct(pp, list, thr, delta, lag_coeffs) ==
    IF ~(Len(list) >= thr) THEN Raise("AssertionError")
    ELSE IF HasDuplicate(Indices(list)) THEN Raise("ValueError")
    ELSE LET lag == IF DOMAIN lag_coeffs = {}
                    THEN ISSS_lagrange(list, delta).coef
                    ELSE lag_coeffs
         IN IF \E k \in 1..Len(list) : list[k].idx \notin DOMAIN lag
            THEN Raise("KeyError")
            ELSE Return(EncryptedNumberJL(pp,
                            TJLS_product(pp, list, lag, Len(list))))

\* _reconstruct of TD_TJLS.share_combine: [err, val]
TD_TJLS_reconstruct(pp, list, thr, delta, lag_coeffs) ==
    IF ~(Len(list) >= thr) THEN Raise("AssertionError")
    ELSE IF HasDuplicate(Indices(list)) THEN Raise("ValueError")
    ELSE IF \E k \in 1..Len(list) : list[k].idx \notin DOMAIN lag_coeffs
    THEN Raise("KeyError")
    ELSE Return(EncryptedNumberJL(pp,
                    TD_TJLS_product(pp, list, lag_coeffs, Len(list))))

\* the first error of a list of [err, val], or the list of the values
Collect(rs) ==
    IF \E i \in DOMAIN rs : rs[i].err # ""
    THEN Raise(rs[CHOOSE i \in DOMAIN rs :
                     rs[i].err # "" /\ \A k \in 1..(i - 1) : rs[k].err = ""].err)
    ELSE Return([i \in DOMAIN rs |-> rs[i].val])

\* TJLS.share_combine, each share one encrypted number: [err, val]
TJLS_share_combine(pp, delta, yzero_tau_shares, thr) ==
    IF ~(Len(yzero_tau_shares) > 0) THEN Raise("AssertionError")
    ELSE TJLS_reconstruct(pp, yzero_tau_shares, thr, delta, <<>>)

\* TJLS.share_combine, each share a list: [err, val]
TJLS_share_combine_list(pp, delta, yzero_tau_shares, thr) ==
    IF ~(Len(yzero_tau_shares) > 0) THEN Raise("AssertionError")
    ELSE IF \E u \in 1..Len(yzero_tau_shares) :
                Len(yzero_tau_shares[u]) # Len(yzero_tau_shares[1])
    THEN Raise("AssertionError")
    ELSE IF Len(yzero_tau_shares[1]) = 0 THEN Return(<<>>)
    ELSE LET lag == ISSS_lagrange(Column(yzero_tau_shares, 1), delta)
         IN IF lag.err # "" THEN Raise(lag.err)
            ELSE Collect([counter \in 1..Len(yzero_tau_shares[1]) |->
                     TJLS_reconstruct(pp, Column(yzero_tau_shares, counter),
                                      thr, delta, lag.coef)])

\* TD_TJLS.share_combine, each share one encrypted number: [err, val]
TD_TJLS_share_combine(pp, delta, yzero_tau_shares, thr) ==
    IF Len(yzero_tau_shares) = 0 THEN Raise("IndexError")
    ELSE LET lag == Shoup_lagrange(yzero_tau_shares, delta)
         IN IF lag.err # "" THEN Raise(lag.err)
            ELSE TD_TJLS_reconstruct(pp, yzero_tau_shares, thr, delta,
                                     lag.coef)

\* TD_TJLS.share_combine, each share a list: [err, val]
TD_TJLS_share_combine_list(pp, delta, yzero_tau_shares, thr) ==
    IF Len(yzero_tau_shares) = 0 THEN Raise("IndexError")
    ELSE IF \E u \in 1..Len(yzero_tau_shares) :
                Len(yzero_tau_shares[u]) # Len(yzero_tau_shares[1])
    THEN Raise("AssertionError")
    ELSE IF Len(yzero_tau_shares[1]) = 0 THEN Return(<<>>)
    ELSE LET lag == Shoup_lagrange(Column(yzero_tau_shares, 1), delta)
         IN IF lag.err # "" THEN Raise(lag.err)
            ELSE Collect([counter \in 1..Len(yzero_tau_shares[1]) |->
                     TD_TJLS_reconstruct(pp, Column(yzero_tau_shares, counter),
                                         thr, delta, lag.coef)])

\* the aggregate raised to e and multiplied by yzero_tau, when one is given:
\* "y_tau = EncryptedNumberJL(pp, powmod(y_tau.ciphertext, e, n_squared));
\*  y_tau += yzero_tau"
WithZero(pp, sk_0, y_tau, e, yzero_val, utils_powmod) ==
    add_encrypted(
        EncryptedNumberJL(pp,
            IF utils_powmod
            THEN powmod(y_tau.ciphertext, e, sk_0.pp.n_squared)
            ELSE gmpy2_powmod(y_tau.ciphertext, e, sk_0.pp.n_squared)),
        yzero_val)

\* mutant: the aggregate decrypted with self.delta also when no zero-share
\* was given
TJLS_agg_delta(self_delta, pp, sk_0, t, list_y_u_tau, yzero_tau) ==
    IF Len(list_y_u_tau) = 0 THEN Raise("IndexError")
    ELSE LET s1 == enc_sum(list_y_u_tau, Len(list_y_u_tau))
         IN IF s1.err # "" THEN s1
            ELSE ServerKeyJL_decrypt(sk_0, s1.val, t, self_delta, FALSE)

\* TJLS.agg, list_y_u_tau a list of encrypted numbers: [err, val]
TJLS_agg(self_delta, pp, sk_0, t, list_y_u_tau, yzero_tau) ==
    IF Len(list_y_u_tau) = 0 THEN Raise("IndexError")
    ELSE LET s1 == enc_sum(list_y_u_tau, Len(list_y_u_tau))
         IN IF s1.err # "" THEN s1
            ELSE IF yzero_tau.err = ""
            THEN LET y_tau == WithZero(pp, sk_0, s1.val,
                                       self_delta * self_delta,
                                       yzero_tau.val, FALSE)
                 IN IF y_tau.err # "" THEN y_tau
                    ELSE ServerKeyJL_decrypt(sk_0, y_tau.val, t, self_delta,
                                             FALSE)
            ELSE ServerKeyJL_decrypt(sk_0, s1.val, t, 1, FALSE)

\* TJLS.agg, list_y_u_tau a list of protected vectors: [err, val]
TJLS_agg_list(ve, self_delta, pp, sk_0, t, list_y_u_tau, yzero_tau) ==
    IF Len(list_y_u_tau) = 0 THEN Raise("IndexError")
    ELSE IF \E u \in 1..Len(list_y_u_tau) :
                Len(list_y_u_tau[u]) < Len(list_y_u_tau[1])
    THEN Raise("IndexError")
    ELSE LET l == Len(list_y_u_tau[1])
             zero == yzero_tau.err = "" /\ Len(yzero_tau.val) > 0
             s1 == Collect([i \in 1..l |->
                      enc_sum(Column(list_y_u_tau, i), Len(list_y_u_tau))])
         IN IF s1.err # "" THEN s1
            ELSE IF zero /\ Len(yzero_tau.val) < l THEN Raise("IndexError")
            ELSE LET y_tau == IF zero
                              THEN Collect([i \in 1..l |->
                                      WithZero(pp, sk_0, s1.val[i],
                                               self_delta * self_delta,
                                               yzero_tau.val[i], FALSE)])
                              ELSE s1
                     delta == IF zero /\ l > 0 THEN self_delta ELSE 1
                 IN IF y_tau.err # "" THEN y_tau
                    ELSE LET d == ServerKeyJL_decrypt_list(sk_0, y_tau.val, t,
                                                           delta, FALSE)
                         IN IF d.err # "" THEN d
                            ELSE Return(VES_decode(ve, d.val))

\* TD_TJLS.agg, list_y_u_tau a list of encrypted numbers: [err, val]
TD_TJLS_agg(self_delta, pp, sk_0, t, list_y_u_tau, yzero_tau) ==
    IF ~pp_eq(sk_0.pp, pp) \/ ~(Len(list_y_u_tau) > 0)
    THEN Raise("AssertionError")
    ELSE LET s1 == enc_sum(list_y_u_tau, Len(list_y_u_tau))
         IN IF s1.err # "" THEN s1
            ELSE IF yzero_tau.err = ""
            THEN LET y_tau == WithZero(pp, sk_0, s1.val, self_delta,
                                       yzero_tau.val, TRUE)
                 IN IF y_tau.err # "" THEN y_tau
                    ELSE ServerKeyJL_decrypt(sk_0, y_tau.val, t, self_delta,
                                             TRUE)
            ELSE ServerKeyJL_decrypt(sk_0, s1.val, t, 1, TRUE)

\* TD_TJLS.agg, list_y_u_tau a list of protected vectors: [err, val]
TD_TJLS_agg_list(ve, self_delta, pp, sk_0, t, list_y_u_tau, yzero_tau) ==
    IF ~pp_eq(sk_0.pp, pp) \/ ~(Len(list_y_u_tau) > 0)
    THEN Raise("AssertionError")
    ELSE LET l == Len(list_y_u_tau[1])
             zero == yzero_tau.err = "" /\ Len(yzero_tau.val) > 0
         IN IF (zero /\ l # Len(yzero_tau.val))
               \/ \E u \in 1..Len(list_y_u_tau) : Len(list_y_u_tau[u]) # l
            THEN Raise("AssertionError")
            ELSE LET s1 == Collect([i \in 1..l |->
                             enc_sum(Column(list_y_u_tau, i),
                                     Len(list_y_u_tau))])
                 IN IF s1.err # "" THEN s1
                    ELSE LET y_tau == IF zero
                                      THEN Collect([i \in 1..l |->
                                              WithZero(pp, sk_0, s1.val[i],
                                                       self_delta,
                                                       yzero_tau.val[i], TRUE)])
                                      ELSE s1
                             delta == IF zero /\ l > 0 THEN self_delta ELSE 1
                             d == ServerKeyJL_decrypt_list(sk_0, y_tau.val, t,
                                                           delta, TRUE)
                         IN IF y_tau.err # "" THEN y_tau
                            ELSE IF d.err # "" THEN d
                            ELSE Return(VES_decode(ve, d.val))

(***************************************************************************)
(* SpecField: a caller that constructs two field elements, from integers   *)
(* or byte strings, and applies the operations of PField to them; the      *)
(* result of an operation becomes the first element.                       *)
(***************************************************************************)
\* PField.__pow__: utils.powmod(self._value, exponent._value, self.p); with a
\* negative exponent gmpy2.powmod needs an invertible base: [err, val]
PField_pow(a, exponent) ==
    IF a = 1 THEN Return(1)
    ELSE IF exponent < 0 /\ gmpy2_invert(a, FieldP).err # ""
    THEN Raise("ZeroDivisionError")
    ELSE Return(gmpy2_powmod(a, exponent, FieldP))

\* the integers a caller may pass: the field's range and just outside it
FieldInts == (0 - 1)..(FieldP + 1)

\* the byte strings a caller may pass
FieldBytes == UNION {[1..k -> 0..MaxByte] : k \in 0..2}

NoCall == [op |-> "", a |-> 0, b |-> 0]
Call(op, a, b) == [op |-> op, a |-> a, b |-> b]

IdleField ==
    /\ f_pc = 0
    /\ fx = 0
    /\ fy = 0
    /\ fcall = NoCall
    /\ fres = NoResult

\* self.Field(v) on an integer: the next of the two elements
FieldFromInt ==
    /\ f_pc < 2
    /\ \E v \in FieldInts :
         /\ fx' = IF f_pc = 0 THEN PField(v) ELSE fx
         /\ fy' = IF f_pc = 1 THEN PField(v) ELSE fy
    /\ f_pc' = f_pc + 1
    /\ UNCHANGED <<fcall, fres>>
    /\ UNCHANGED notField

\* self.Field(b) on a byte string: the next of the two elements
FieldFromBytes ==
    /\ f_pc < 2
    /\ \E b \in FieldBytes :
         /\ fx' = IF f_pc = 0 THEN PField_bytes(b) ELSE fx
         /\ fy' = IF f_pc = 1 THEN PField_bytes(b) ELSE fy
    /\ f_pc' = f_pc + 1
    /\ UNCHANGED <<fcall, fres>>
    /\ UNCHANGED notField

\* The operations below act on the two elements: the result replaces the
\* first element, an exception leaves both as they were.

\* PField.__add__
FieldAdd ==
    /\ f_pc = 2
    /\ LET r == Return(PField_add(fx, fy))
       IN /\ fres' = r
          /\ fx' = IF r.err = "" THEN r.val ELSE fx
    /\ fcall' = Call("add", fx, fy)
    /\ UNCHANGED <<f_pc, fy>>
    /\ UNCHANGED notField

\* PField.__sub__
FieldSub ==
    /\ f_pc = 2
    /\ LET r == Return(PField_sub(fx, fy))
       IN /\ fres' = r
          /\ fx' = IF r.err = "" THEN r.val ELSE fx
    /\ fcall' = Call("sub", fx, fy)
    /\ UNCHANGED <<f_pc, fy>>
    /\ UNCHANGED notField

\* PField.__mul__
FieldMul ==
    /\ f_pc = 2
    /\ LET r == Return(PField_mul(fx, fy))
       IN /\ fres' = r
          /\ fx' = IF r.err = "" THEN r.val ELSE fx
    /\ fcall' = Call("mul", fx, fy)
    /\ UNCHANGED <<f_pc, fy>>
    /\ UNCHANGED notField

\* PField.__div__
FieldDiv ==
    /\ f_pc = 2
    /\ LET r == PField_div(fx, fy)
       IN /\ fres' = r
          /\ fx' = IF r.err = "" THEN r.val ELSE fx
    /\ fcall' = Call("div", fx, fy)
    /\ UNCHANGED <<f_pc, fy>>
    /\ UNCHANGED notField

\* PField.inverse
FieldInverse ==
    /\ f_pc = 2
    /\ LET r == PField_inverse(fx)
       IN /\ fres' = r
          /\ fx' = IF r.err = "" THEN r.val ELSE fx
    /\ fcall' = Call("inverse", fx, fy)
    /\ UNCHANGED <<f_pc, fy>>
    /\ UNCHANGED notField

\* PField.__pow__
FieldPow ==
    /\ f_pc = 2
    /\ LET r == PField_pow(fx, fy)
       IN /\ fres' = r
          /\ fx' = IF r.err = "" THEN r.val ELSE fx
    /\ fcall' = Call("pow", fx, fy)
    /\ UNCHANGED <<f_pc, fy>>
    /\ UNCHANGED notField

\* PField.__mod__
FieldMod ==
    /\ f_pc = 2
    /\ LET r == PField_mod(fx, fy)
       IN /\ fres' = r
          /\ fx' = IF r.err = "" THEN r.val ELSE fx
    /\ fcall' = Call("mod", fx, fy)
    /\ UNCHANGED <<f_pc, fy>>
    /\ UNCHANGED notField

(***************************************************************************)
(* SpecJL and SpecTJL: one aggregation round, in the order of the tests    *)
(* (test_jl.py test_agg, test_td_tjl.py test_scheme): setup, the dropped   *)
(* users' keys shared, protect by every online user, share_protect by      *)
(* every online user, share_combine on a set of the zero-shares, agg.      *)
(* Users are 1..nusers (users[u - 1] of the code).  Only the sharings of   *)
(* the dropped users' keys are read by the round, so only those are made.  *)
(***************************************************************************)
\* the scheme objects: JLS(nusers, ve), TJLS(threshold, nusers, ve),
\* TD_TJLS(threshold, nusers, ve); vector tells whether ve is set
Scheme(cls, vector, t, nusers) ==
    [cls |-> cls, vector |-> vector, threshold |-> t, nusers |-> nusers,
     delta |-> factorial(nusers)]

\* the ve of a scheme in vector mode: 5-bit plaintexts (below n), one
\* addition per user, 1-bit values, 2 elements
JLVES(nusers) == VES(5, nusers, 1, 2)

Users == 1..jl.nusers
Online == Users \ dropped

\* user keys (getrandbits(2 * n_len)) from both ends of 0 .. n*phi_n - 1
UserKeys == {1, RingN * RingPhi - 2}

\* values of fdh.H: units of Z_{n^2}, neither a square modulo 5
HashValues == {2, 3}

\* the random coefficients of sk_share: signed for ISSS, residues for Shoup
JLCoeffs == IF jl.cls = "TJLS" THEN {0 - 1, 0, 1} ELSE {0, 1}

\* round tags
Taus == {1}

\* the tags hashed in a round with tag t
RoundTags(t) ==
    IF jl.vector
    THEN {SlotTag(SetupPP, i, t) : i \in 0..(JLVES(jl.nusers).numbatches - 1)}
    ELSE {t}

\* the inputs of a user: small integers and the largest plaintext, or the
\* vectors of the configured length
JLInputs ==
    IF jl.vector
    THEN [1..JLVES(jl.nusers).vectorsize ->
             0..(2^JLVES(jl.nusers).valuesize - 1)]
    ELSE (0..MaxInput) \cup {RingN - 1}

\* the users that may drop: up to nusers - threshold of them
DropSets ==
    IF jl.cls = "JLS" THEN {{}}
    ELSE {D \in SUBSET Users : Cardinality(D) <= jl.nusers - jl.threshold}

\* the elements of a set of users in increasing order
Ascending(S) ==
    [k \in 1..Cardinality(S) |->
        CHOOSE x \in S : Cardinality({y \in S : y < x}) = k - 1]

RECURSIVE SumKeys(_, _)
SumKeys(keys, k) == IF k = 0 THEN 0 ELSE SumKeys(keys, k - 1) + keys[k]

RoundNotStarted ==
    /\ jl_pc = "new"
    /\ hashOf = <<>>
    /\ tau = 0
    /\ userKeys = <<>>
    /\ serverKey = ServerKeyJL(SetupPP, 0)
    /\ dropped = {}
    /\ keyShares = <<>>
    /\ inputs = <<>>
    /\ ys = <<>>
    /\ zeroShares = <<>>
    /\ combineOut = NoResult
    /\ aggOut = NoResult

IdleJL ==
    /\ jl = Scheme("", FALSE, 0, 0)
    /\ RoundNotStarted

\* JLS.setup / TJLS.setup / TD_TJLS.setup: the keys and s0 = -(sum of them)
JLSetup ==
    /\ jl_pc = "new"
    /\ \E keys \in [Users -> UserKeys] :
         /\ userKeys' = [u \in Users |-> UserKeyJL(SetupPP, keys[u])]
         /\ serverKey' = ServerKeyJL(SetupPP, 0 - SumKeys(keys, jl.nusers))
    /\ jl_pc' = "keys"
    /\ UNCHANGED <<jl, hashOf, tau, dropped, keyShares, inputs, ys,
                   zeroShares, combineOut, aggOut>>
    /\ UNCHANGED notJL

\* a round begins: its tag, the hash of the tags it uses, who is offline
JLRound ==
    /\ jl_pc = "keys"
    /\ \E t \in Taus :
         /\ tau' = t
         /\ hashOf' \in [RoundTags(t) -> HashValues]
    /\ dropped' \in DropSets
    /\ jl_pc' = "online"
    /\ UNCHANGED <<jl, userKeys, serverKey, keyShares, inputs, ys,
                   zeroShares, combineOut, aggOut>>
    /\ UNCHANGED notJL

\* the next user of a set that has no entry yet in a table
NextUser(S, table) ==
    CHOOSE u \in S \ DOMAIN table : \A w \in S \ DOMAIN table : u <= w

\* sk_share of the scheme, for dropped user v
SkShare ==
    /\ jl_pc = "online"
    /\ dropped \ DOMAIN keyShares # {}
    /\ LET v == NextUser(dropped, keyShares)
       IN \E rnd \in [1..(jl.threshold - 1) -> JLCoeffs] :
            keyShares' = (v :>
                (IF jl.cls = "TJLS"
                 THEN ISSS_share(userKeys[v].s, jl.threshold, jl.nusers, rnd)
                 ELSE Shoup_share(userKeys[v].s, jl.threshold, jl.nusers,
                                  RingPhi, RingN, rnd))) @@ keyShares
    /\ UNCHANGED <<jl, jl_pc, hashOf, tau, userKeys, serverKey, dropped,
                   inputs, ys, zeroShares, combineOut, aggOut>>
    /\ UNCHANGED notJL

\* protect (JLS.protect, inherited) by online user u on an input it draws
Protect ==
    /\ jl_pc = "online"
    /\ dropped \subseteq DOMAIN keyShares
    /\ Online \ DOMAIN ys # {}
    /\ LET u == NextUser(Online, ys)
       IN \E x \in JLInputs :
            LET y == IF jl.vector
                     THEN JLS_protect_list(JLVES(jl.nusers), SetupPP,
                                           userKeys[u], tau, x)
                     ELSE JLS_protect(SetupPP, userKeys[u], tau, x)
            IN /\ y.err = ""
               /\ ys' = (u :> y.val) @@ ys
               /\ inputs' = (u :> x) @@ inputs
    /\ UNCHANGED <<jl, jl_pc, hashOf, tau, userKeys, serverKey, dropped,
                   keyShares, zeroShares, combineOut, aggOut>>
    /\ UNCHANGED notJL

\* the shares online user u holds of the dropped users' keys
HeldShares(u) ==
    [k \in 1..Cardinality(dropped) |-> keyShares[Ascending(dropped)[k]][u]]

\* share_protect of the scheme by online user u
ShareProtect ==
    /\ jl_pc = "online"
    /\ dropped # {}
    /\ dropped \subseteq DOMAIN keyShares
    /\ Online \subseteq DOMAIN ys
    /\ Online \ DOMAIN zeroShares # {}
    /\ LET u == NextUser(Online, zeroShares)
           z == IF jl.cls = "TJLS"
                THEN IF jl.vector
                     THEN TJLS_share_protect_list(JLVES(jl.nusers), SetupPP,
                                                  HeldShares(u), tau)
                     ELSE TJLS_share_protect(SetupPP, HeldShares(u), tau)
                ELSE IF jl.vector
                     THEN TD_TJLS_share_protect_list(JLVES(jl.nusers), SetupPP,
                                                     HeldShares(u), tau)
                     ELSE TD_TJLS_share_protect(SetupPP, HeldShares(u), tau)
       IN /\ z.err = ""
          /\ zeroShares' = (u :> z.val) @@ zeroShares
    /\ UNCHANGED <<jl, jl_pc, hashOf, tau, userKeys, serverKey, dropped,
                   keyShares, inputs, ys, combineOut, aggOut>>
    /\ UNCHANGED notJL

\* share_combine of the scheme on the zero-shares of a set Z of online users
ShareCombine ==
    /\ jl_pc = "online"
    /\ dropped # {}
    /\ Online \subseteq DOMAIN zeroShares
    /\ combineOut = NoResult
    /\ \E Z \in (SUBSET Online) \ {{}} :
         LET list == [k \in 1..Cardinality(Z) |-> zeroShares[Ascending(Z)[k]]]
         IN combineOut' =
              IF jl.cls = "TJLS"
              THEN IF jl.vector
                   THEN TJLS_share_combine_list(SetupPP, jl.delta, list,
                                                jl.threshold)
                   ELSE TJLS_share_combine(SetupPP, jl.delta, list,
                                           jl.threshold)
              ELSE IF jl.vector
                   THEN TD_TJLS_share_combine_list(SetupPP, jl.delta, list,
                                                   jl.threshold)
                   ELSE TD_TJLS_share_combine(SetupPP, jl.delta, list,
                                              jl.threshold)
    /\ UNCHANGED <<jl, jl_pc, hashOf, tau, userKeys, serverKey, dropped,
                   keyShares, inputs, ys, zeroShares, aggOut>>
    /\ UNCHANGED notJL

\* share_combine of the scheme on the zero-shares of fewer online users than
\* the threshold
ShareCombineShort ==
    /\ jl_pc = "online"
    /\ dropped # {}
    /\ Online \subseteq DOMAIN zeroShares
    /\ combineOut = NoResult
    /\ \E Z \in SUBSET Online :
         /\ Cardinality(Z) < jl.threshold
         /\ LET list == [k \in 1..Cardinality(Z) |->
                            zeroShares[Ascending(Z)[k]]]
            IN combineOut' =
                 IF jl.cls = "TJLS"
                 THEN IF jl.vector
                      THEN TJLS_share_combine_list(SetupPP, jl.delta, list,
                                                   jl.threshold)
                      ELSE TJLS_share_combine(SetupPP, jl.delta, list,
                                              jl.threshold)
                 ELSE IF jl.vector
                      THEN TD_TJLS_share_combine_list(SetupPP, jl.delta, list,
                                                      jl.threshold)
                      ELSE TD_TJLS_share_combine(SetupPP, jl.delta, list,
                                                 jl.threshold)
    /\ jl_pc' = "short"
    /\ UNCHANGED <<jl, hashOf, tau, userKeys, serverKey, dropped,
                   keyShares, inputs, ys, zeroShares, aggOut>>
    /\ UNCHANGED notJL

\* the protected inputs of the online users, as the server lists them
OnlineYs == [k \in 1..Cardinality(Online) |-> ys[Ascending(Online)[k]]]

\* agg of the scheme on the online users' protected inputs, with the
\* combined zero-share when users dropped (yzero = None otherwise)
Agg ==
    /\ jl_pc = "online"
    /\ Online \subseteq DOMAIN ys
    /\ dropped = {} \/ combineOut.err = ""
    /\ aggOut' =
         IF jl.cls = "JLS"
         THEN IF jl.vector
              THEN JLS_agg_list(JLVES(jl.nusers), SetupPP, serverKey, tau,
                                OnlineYs)
              ELSE JLS_agg(SetupPP, serverKey, tau, OnlineYs)
         ELSE IF jl.cls = "TJLS"
         THEN IF jl.vector
              THEN TJLS_agg_list(JLVES(jl.nusers), jl.delta, SetupPP,
                                 serverKey, tau, OnlineYs, combineOut)
              ELSE TJLS_agg(jl.delta, SetupPP, serverKey, tau, OnlineYs,
                            combineOut)
         ELSE IF jl.vector
              THEN TD_TJLS_agg_list(JLVES(jl.nusers), jl.delta, SetupPP,
                                    serverKey, tau, OnlineYs, combineOut)
              ELSE TD_TJLS_agg(jl.delta, SetupPP, serverKey, tau, OnlineYs,
                               combineOut)
    /\ jl_pc' = "done"
    /\ UNCHANGED <<jl, hashOf, tau, userKeys, serverKey, dropped, keyShares,
                   inputs, ys, zeroShares, combineOut>>
    /\ UNCHANGED notJL

\* the agg of the three schemes (objects of one nusers and one ve) on the
\* online users' protected inputs of a round nobody dropped from, yzero_tau
\* left None
AggThree ==
    /\ jl_pc = "online"
    /\ Online \subseteq DOMAIN ys
    /\ dropped = {}
    /\ aggOut' =
         IF jl.vector
         THEN [jls |-> JLS_agg_list(JLVES(jl.nusers), SetupPP, serverKey, tau,
                                    OnlineYs),
               tjls |-> TJLS_agg_list(JLVES(jl.nusers), jl.delta, SetupPP,
                                      serverKey, tau, OnlineYs, NoResult),
               td |-> TD_TJLS_agg_list(JLVES(jl.nusers), jl.delta, SetupPP,
                                       serverKey, tau, OnlineYs, NoResult)]
         ELSE [jls |-> JLS_agg(SetupPP, serverKey, tau, OnlineYs),
               tjls |-> TJLS_agg(jl.delta, SetupPP, serverKey, tau, OnlineYs,
                                 NoResult),
               td |-> TD_TJLS_agg(jl.delta, SetupPP, serverKey, tau, OnlineYs,
                                  NoResult)]
    /\ jl_pc' = "compared"
    /\ UNCHANGED <<jl, hashOf, tau, userKeys, serverKey, dropped, keyShares,
                   inputs, ys, zeroShares, combineOut>>
    /\ UNCHANGED notJL

\* agg of the scheme on a list of protected vectors: [err, val]
agg_list(list_y_u_tau, yzero_tau) ==
    IF jl.cls = "JLS"
    THEN JLS_agg_list(JLVES(jl.nusers), SetupPP, serverKey, tau, list_y_u_tau)
    ELSE IF jl.cls = "TJLS"
    THEN TJLS_agg_list(JLVES(jl.nusers), jl.delta, SetupPP, serverKey, tau,
                       list_y_u_tau, yzero_tau)
    ELSE TD_TJLS_agg_list(JLVES(jl.nusers), jl.delta, SetupPP, serverKey, tau,
                          list_y_u_tau, yzero_tau)

\* a vector with its last element missing, or with one element more
Resized(v) ==
    IF Len(v) = 0 THEN {}
    ELSE {SubSeq(v, 1, Len(v) - 1), Append(v, v[Len(v)])}

\* agg of the scheme on protected vectors of which one reached the server
\* with another length: the vector of an online user or the zero-share vector
AggResized ==
    /\ jl_pc = "online"
    /\ jl.vector
    /\ Online \subseteq DOMAIN ys
    /\ dropped = {} \/ combineOut.err = ""
    /\ \/ \E u \in Online : \E v \in Resized(ys[u]) :
            /\ ys' = [ys EXCEPT ![u] = v]
            /\ UNCHANGED combineOut
       \/ /\ combineOut.err = ""
          /\ \E v \in Resized(combineOut.val) : combineOut' = Return(v)
          /\ UNCHANGED ys
    /\ aggOut' = agg_list([k \in 1..Cardinality(Online) |->
                               ys'[Ascending(Online)[k]]], combineOut')
    /\ jl_pc' = "resized"
    /\ UNCHANGED <<jl, hashOf, tau, userKeys, serverKey, dropped, keyShares,
                   inputs, zeroShares>>
    /\ UNCHANGED notJL

(***************************************************************************)
(* Full-domain hash.  SHA256 is a fixed function of (t, counter); a digest *)
(* is scaled from 32 bytes to one.                                         *)
(***************************************************************************)
FDH(bitsize, N) == [bitsize |-> bitsize, N |-> N]

\* the tags a caller may pass; a negative tag has no to_bytes encoding
Tags == (0 - 1)..1

\* the bytes SHA256 may produce
DigestBytes == {0, 1, 5, 7}

\* result[-k:]: the last k bytes of result
LastBytes(result, k) ==
    IF Len(result) <= k THEN result
    ELSE SubSeq(result, Len(result) - k + 1, Len(result))

\* mutant: every candidate is returned
FDH_coprime_any(r, N) == TRUE

\* the test of the outer loop: gcd(r, self.N) == 1
FDH_coprime(r, N) == gcd(r, N) = 1

RECURSIVE FDH_inner(_, _, _, _)
\* the inner loop of H, entered with counter and result:
\* [err, counter, result] when it breaks or raises
FDH_inner(f, t, counter, result) ==
    IF counter > CounterMax
    THEN [err |-> "OverflowError", counter |-> counter, result |-> result]
    ELSE LET appended == Append(result, digest[t][counter])
         IN IF Len(appended) < f.bitsize \div 8
            THEN [err |-> "", counter |-> counter + 1, result |-> appended]
            ELSE FDH_inner(f, t, counter + 1, appended)

RECURSIVE FDH_outer(_, _, _, _)
\* the outer loop of H, entered with counter and result: [err, val]
FDH_outer(f, t, counter, result) ==
    LET inner == FDH_inner(f, t, counter, result)
        r == from_bytes(LastBytes(inner.result, f.bitsize), 0)
    IN IF inner.err # "" THEN Raise(inner.err)
       ELSE IF FDH_coprime(r, f.N) THEN Return(r)
       ELSE FDH_outer(f, t, inner.counter, inner.result)

\* FDH.H: [err, val]
FDH_H(f, t) ==
    IF t < 0 THEN Raise("OverflowError") ELSE FDH_outer(f, t, 1, <<>>)

IdleFDH ==
    /\ fdh = FDH(0, 0)
    /\ digest = <<>>
    /\ hres = NoResult

\* fdh.H(t)
HashTag ==
    /\ fdh.bitsize > 0
    /\ \E t \in Tags :
         hres' = [err |-> FDH_H(fdh, t).err, val |-> FDH_H(fdh, t).val,
                  t |-> t]
    /\ UNCHANGED <<fdh, digest>>
    /\ UNCHANGED notFDH

(***************************************************************************)
(* SpecClient: one client of FTSA (protocols/ftsa/client.py) or of SecAgg  *)
(* (protocols/sec_agg/client.py) after its key setup, and the dicts of     *)
(* encrypted messages the server delivers to it.  An encrypted message is  *)
(* a record [chan, u, v, k, b]: chan the pair of users whose channel key   *)
(* encrypted it, u and v the sender and receiver ids inside, k and b the   *)
(* key share and the b-mask share inside.  A dict is the sequence of its   *)
(* items in insertion order.                                               *)
(***************************************************************************)
\* the share values user u made for user v
KShareOf(u, v) == 10 * u + v
BShareOf(u, v) == 100 + 10 * u + v

\* "key.encrypt(self.user.to_bytes(2) + vuser.to_bytes(2) + shares)" by u
EncryptedShares(u, v) ==
    [chan |-> {u, v}, u |-> u, v |-> v, k |-> KShareOf(u, v),
     b |-> BShareOf(u, v)]

\* mutant: the ids inside the message not compared
message_any(user, vuser, message) == TRUE

\* "assert v == self.user and u == vuser"
message_ok(user, vuser, message) ==
    message.v = user /\ message.u = vuser

RECURSIVE store_shares(_, _, _, _, _, _)
\* the loop "for vuser in e_shares" of setup_keysetup2, online_construct
\* (ClientFTSA) and unmasking (SecAggClient) from item i on: the channel key
\* of vuser (KeyError without one), decrypt_and_verify (ValueError under
\* another key), the assertion on the ids, then the stores named by which;
\* [err, sk, b]
store_shares(user, e_shares, i, sk, b, which) ==
    IF i > Len(e_shares) THEN [err |-> "", sk |-> sk, b |-> b]
    ELSE LET vuser == e_shares[i][1]
             message == e_shares[i][2]
         IN IF vuser = user THEN [err |-> "KeyError", sk |-> sk, b |-> b]
            ELSE IF message.chan # {user, vuser}
            THEN [err |-> "ValueError", sk |-> sk, b |-> b]
            ELSE IF ~message_ok(user, vuser, message)
            THEN [err |-> "AssertionError", sk |-> sk, b |-> b]
            ELSE store_shares(user, e_shares, i + 1,
                     IF "sk" \in which
                     THEN (vuser :> Share(user, message.k)) @@ sk ELSE sk,
                     IF "b" \in which
                     THEN (vuser :> Share(user, message.b)) @@ b ELSE b,
                     which)

\* the keys of a dict
Keys(e_shares) == {e_shares[i][1] : i \in 1..Len(e_shares)}

\* ClientFTSA.setup_keysetup2: [err, sk, b]
setup_keysetup2(c, sk, b, e_shares) ==
    IF ~(Len(e_shares) + 1 >= c.threshold)
    THEN [err |-> "AssertionError", sk |-> sk, b |-> b]
    ELSE store_shares(c.user, e_shares, 1, sk, b, {"sk"})

\* ClientFTSA.online_construct: [err, sk, b, ret_b, ret_zero]; ret_zero the
\* users whose key shares went into y_zero_share
online_construct(c, sk, b, e_shares) ==
    IF ~(Len(e_shares) + 1 >= c.threshold)
    THEN [err |-> "AssertionError", sk |-> sk, b |-> b,
          ret_b |-> <<>>, ret_zero |-> {}]
    ELSE LET r == store_shares(c.user, e_shares, 1, sk, b, {"b"})
             clients_on == {c.user} \cup Keys(e_shares)
             drops == (1..c.nclients) \ clients_on
         IN IF r.err # ""
            THEN [err |-> r.err, sk |-> r.sk, b |-> r.b,
                  ret_b |-> <<>>, ret_zero |-> {}]
            ELSE IF ~(drops \subseteq DOMAIN r.sk)
            THEN [err |-> "KeyError", sk |-> r.sk, b |-> r.b,
                  ret_b |-> <<>>, ret_zero |-> {}]
            ELSE [err |-> "", sk |-> r.sk, b |-> r.b,
                  ret_b |-> r.b, ret_zero |-> drops]

\* SecAggClient.unmasking: [err, sk, b, ret_sk, ret_b]
unmasking(c, sk, b, e_shares, clients_on) ==
    IF ~(Cardinality(clients_on) >= c.threshold)
       \/ ~(clients_on \subseteq 1..c.nclients)
    THEN [err |-> "AssertionError", sk |-> sk, b |-> b,
          ret_sk |-> <<>>, ret_b |-> <<>>]
    ELSE LET r == store_shares(c.user, e_shares, 1, sk, b, {"sk", "b"})
         IN IF r.err # ""
            THEN [err |-> r.err, sk |-> r.sk, b |-> r.b,
                  ret_sk |-> <<>>, ret_b |-> <<>>]
            ELSE IF ~(clients_on \subseteq DOMAIN r.b)
                    \/ ~((1..c.nclients) \ clients_on \subseteq DOMAIN r.sk)
            THEN [err |-> "KeyError", sk |-> r.sk, b |-> r.b,
                  ret_sk |-> <<>>, ret_b |-> <<>>]
            ELSE [err |-> "", sk |-> r.sk, b |-> r.b,
                  ret_sk |-> [v \in (1..c.nclients) \ clients_on |-> r.sk[v]],
                  ret_b |-> [v \in clients_on |-> r.b[v]]]

\* what the server may deliver to user as the message of vuser: the message
\* vuser made for user, the message user made for vuser, or the message
\* vuser made for somebody else
Candidates(user, vuser, nclients) ==
    {EncryptedShares(vuser, user), EncryptedShares(user, vuser)}
    \cup {EncryptedShares(vuser, w) : w \in (1..nclients) \ {user, vuser}}

RECURSIVE SortedSeq(_)
\* the elements of a set of indices in ascending order
SortedSeq(S) ==
    IF S = {} THEN <<>>
    ELSE LET least == CHOOSE x \in S : \A y \in S : x <= y
         IN <<least>> \o SortedSeq(S \ {least})

RECURSIVE DictsOver(_, _, _)
\* the dicts with the keys q, in that order
DictsOver(user, nclients, q) ==
    IF q = <<>> THEN {<<>>}
    ELSE {<<<<Head(q), message>>>> \o rest :
             message \in Candidates(user, Head(q), nclients),
             rest \in DictsOver(user, nclients, Tail(q))}

\* the dicts the server may deliver: any users as keys, in ascending order
Deliveries(user, nclients) ==
    UNION {DictsOver(user, nclients, SortedSeq(S)) :
              S \in SUBSET (1..nclients)}

NoOut == [err |-> "none"]

IdleClient ==
    /\ cl = [proto |-> "none", user |-> 0, threshold |-> 0, nclients |-> 0]
    /\ cl_pc = "none"
    /\ cl_e_shares = <<>>
    /\ cl_sk_shares = <<>>
    /\ cl_b_shares = <<>>
    /\ cl_out = NoOut
    /\ cl_released = {}

\* client.setup_keysetup2(e_shares)
FTSAKeySetup2 ==
    /\ cl.proto = "FTSA"
    /\ cl_pc = "setup_keysetup"
    /\ \E e_shares \in Deliveries(cl.user, cl.nclients) :
         /\ LET r == setup_keysetup2(cl, cl_sk_shares, cl_b_shares, e_shares)
            IN /\ cl_e_shares' = e_shares
               /\ cl_sk_shares' = r.sk
               /\ cl_out' = [err |-> r.err]
    /\ cl_pc' = "setup_keysetup2"
    /\ UNCHANGED <<cl, cl_b_shares, cl_released>>
    /\ UNCHANGED notClient

\* client.new_fl_step(); client.online_encrypt(): the own b-mask share
FTSAOnlineEncrypt ==
    /\ cl.proto = "FTSA"
    /\ cl_pc = "setup_keysetup2"
    /\ cl_out.err = ""
    /\ cl_b_shares' = (cl.user :> Share(cl.user, BShareOf(cl.user, cl.user)))
    /\ cl_pc' = "online_encrypt"
    /\ cl_e_shares' = <<>>
    /\ UNCHANGED <<cl, cl_sk_shares, cl_out, cl_released>>
    /\ UNCHANGED notClient

\* client.online_construct(e_shares)
FTSAOnlineConstruct ==
    /\ cl.proto = "FTSA"
    /\ cl_pc = "online_encrypt"
    /\ \E e_shares \in Deliveries(cl.user, cl.nclients) :
         /\ LET r == online_construct(cl, cl_sk_shares, cl_b_shares, e_shares)
            IN /\ cl_e_shares' = e_shares
               /\ cl_b_shares' = r.b
               /\ cl_out' = [err |-> r.err, b |-> r.ret_b, zero |-> r.ret_zero]
    /\ cl_pc' = "online_construct"
    /\ UNCHANGED <<cl, cl_sk_shares, cl_released>>
    /\ UNCHANGED notClient

\* client.masked_input_collection(eshares): the dict is kept as it came
SecAggCollect ==
    /\ cl.proto = "SecAgg"
    /\ cl_pc = "share_keys"
    /\ \E e_shares \in Deliveries(cl.user, cl.nclients) :
         /\ Len(e_shares) >= cl.threshold
         /\ cl_e_shares' = e_shares
    /\ cl_pc' = "masked_input_collection"
    /\ UNCHANGED <<cl, cl_sk_shares, cl_b_shares, cl_out, cl_released>>
    /\ UNCHANGED notClient

\* client.unmasking(clients_on), any number of times in the step
SecAggUnmasking ==
    /\ cl.proto = "SecAgg"
    /\ cl_pc \in {"masked_input_collection", "unmasking"}
    /\ \E clients_on \in SUBSET (1..cl.nclients) :
         LET r == unmasking(cl, cl_sk_shares, cl_b_shares, cl_e_shares,
                            clients_on)
         IN /\ cl_sk_shares' = r.sk
            /\ cl_b_shares' = r.b
            /\ cl_out' = [err |-> r.err, sk |-> r.ret_sk, b |-> r.ret_b,
                          on |-> clients_on]
            /\ cl_released' = cl_released
                  \cup {<<"sk", v>> : v \in DOMAIN r.ret_sk}
                  \cup {<<"b", v>> : v \in DOMAIN r.ret_b}
    /\ cl_pc' = "unmasking"
    /\ UNCHANGED <<cl, cl_e_shares>>
    /\ UNCHANGED notClient

(***************************************************************************)
(* SpecTag: the tags of two slots, each computed as the user key computes  *)
(* it in encrypt and as the server key computes it in decrypt.             *)
(***************************************************************************)
NoTag == [set |-> FALSE]

\* round tags: those below 2^(bits // 2) and the first one above
TagTaus(pp) == 0..(2^(pp.bits \div 2))

IdleTag ==
    /\ tg_pp = PublicParamJL(0, 0)
    /\ tg_a = NoTag
    /\ tg_b = NoTag

\* slot i of a vector under round tag t: the tag in UserKeyJL.encrypt and
\* the tag in ServerKeyJL.decrypt
TagSlot ==
    /\ ~tg_b.set
    /\ \E i \in 0..MaxSlot, t \in TagTaus(tg_pp) :
         LET slot == [set |-> TRUE, i |-> i, tau |-> t,
                      enc |-> SlotTag(tg_pp, i, t),
                      dec |-> SlotTag(tg_pp, i, t)]
         IN /\ tg_a' = IF tg_a.set THEN tg_a ELSE slot
            /\ tg_b' = IF tg_a.set THEN slot ELSE tg_b
    /\ UNCHANGED tg_pp
    /\ UNCHANGED notTag

(***************************************************************************)
(* SpecAdd: a caller that makes up to MaxSharings sharings with one scheme, *)
(* threshold and nusers, adds them index by index with the + of the share  *)
(* class, and reconstructs from shares of the sum.                         *)
(***************************************************************************)
\* mutant: the value of the left operand returned as the sum
Share_add_left(a, b) ==
    IF ~(a.idx = b.idx) THEN Raise("AssertionError")
    ELSE Return(Share(a.idx, a.value))

\* Share.__add__, the values are field elements: [err, val]
Share_add(a, b) ==
    IF ~(a.idx = b.idx) THEN Raise("AssertionError")
    ELSE Return(Share(a.idx, PField_add(a.value, b.value)))

\* IShare.__add__, the values are integers: [err, val]
IShare_add(a, b) ==
    IF ~(a.idx = b.idx) THEN Raise("AssertionError")
    ELSE Return(Share(a.idx, a.value + b.value))

\* ShoupShare.__add__: [err, val]
ShoupShare_add(a, b) ==
    IF ~(a.idx = b.idx) THEN Raise("AssertionError")
    ELSE Return(Share(a.idx, a.value + b.value))

\* a + b on two shares of the class of the scheme
add_shares(cls, a, b) ==
    IF cls = "SSS" THEN Share_add(a, b)
    ELSE IF cls = "ISSS" THEN IShare_add(a, b)
    ELSE ShoupShare_add(a, b)

\* "[a + b for a, b in zip(total, new)]" on two sharings of the same nusers
add_sharings(cls, total, new) ==
    [i \in 1..Len(total) |-> add_shares(cls, total[i], new[i]).val]

\* share of the scheme, with the coefficients rnd
share_of(cls, s, t, rnd) ==
    IF cls = "SSS" THEN SSS_share(s, t, NUsersSS, rnd)
    ELSE IF cls = "ISSS" THEN ISSS_share(s, t, NUsersSS, rnd)
    ELSE Shoup_share(s, t, NUsersSS, RingPhi, RingN, rnd)

\* lagrange on the list, then reconstruct on it: [err, val]
reconstruct_of(cls, list, t) ==
    IF cls = "SSS"
    THEN LET lag == SSS_lagrange(list)
         IN IF lag.err # "" THEN Raise(lag.err)
            ELSE SSS_reconstruct(list, t, lag.coef)
    ELSE LET lag == ISSS_lagrange(list, factorial(NUsersSS))
         IN IF lag.err # "" THEN Raise(lag.err)
            ELSE ISSS_reconstruct(list, t, factorial(NUsersSS), lag.coef)

\* the secrets and coefficients the sharings are made of
AddSecrets(cls) ==
    IF cls = "SSS" THEN {1, FieldP - 1}
    ELSE IF cls = "ISSS" THEN {0 - 1, 1}
    ELSE {1, RingN * RingPhi - 1}
AddCoeffs(cls) == IF cls = "ISSS" THEN {0 - 1, 1} ELSE {0, 1}

RECURSIVE SumSeq(_)
SumSeq(q) == IF q = <<>> THEN 0 ELSE Head(q) + SumSeq(Tail(q))

NoAdd == [err |-> "none"]

IdleAdd ==
    /\ ad_scheme = "none"
    /\ ad_t = 0
    /\ ad_secrets = <<>>
    /\ ad_last = <<>>
    /\ ad_sum = <<>>
    /\ ad_add = NoAdd
    /\ ad_rec = NoAdd

\* shares = scheme.share(s, t, nusers); total = [a + b for a, b in zip(..)]
NewSharing ==
    /\ ad_rec.err = "none"
    /\ Len(ad_secrets) < MaxSharings
    /\ \E s \in AddSecrets(ad_scheme) :
         \E rnd \in [1..(ad_t - 1) -> AddCoeffs(ad_scheme)] :
            /\ ad_secrets' = Append(ad_secrets, s)
            /\ ad_last' = share_of(ad_scheme, s, ad_t, rnd)
            /\ ad_sum' = IF ad_secrets = <<>>
                         THEN share_of(ad_scheme, s, ad_t, rnd)
                         ELSE add_sharings(ad_scheme, ad_sum,
                                  share_of(ad_scheme, s, ad_t, rnd))
    /\ ad_add' = NoAdd
    /\ UNCHANGED <<ad_scheme, ad_t, ad_rec>>
    /\ UNCHANGED notAdd

\* ad_sum[i] + ad_last[j]: a new share or an AssertionError, the operands
\* are not assigned to
ShareAdd ==
    /\ ad_rec.err = "none"
    /\ ad_secrets # <<>>
    /\ \E i, j \in 1..NUsersSS :
         LET r == add_shares(ad_scheme, ad_sum[i], ad_last[j])
         IN ad_add' = [err |-> r.err, val |-> r.val,
                       a |-> ad_sum[i], b |-> ad_last[j], i |-> i, j |-> j]
    /\ UNCHANGED <<ad_scheme, ad_t, ad_secrets, ad_last, ad_sum, ad_rec>>
    /\ UNCHANGED notAdd

\* lagrange and reconstruct on the shares of the sum held by a set of users
SumReconstruct ==
    /\ ad_rec.err = "none"
    /\ ad_add.err = "none"
    /\ ad_secrets # <<>>
    /\ ad_scheme \in {"SSS", "ISSS"}
    /\ \E S \in SUBSET (1..NUsersSS) :
         LET list == [k \in 1..Cardinality(S) |-> ad_sum[SortedSeq(S)[k]]]
             r == reconstruct_of(ad_scheme, list, ad_t)
         IN ad_rec' = [err |-> r.err, val |-> r.val, list |-> list]
    /\ UNCHANGED <<ad_scheme, ad_t, ad_secrets, ad_last, ad_sum, ad_add>>
    /\ UNCHANGED notAdd

(***************************************************************************)
(* SpecOwl, SpecFTSA: one round of a protocol, driven as test_protocol     *)
(* drives it: every client makes the calls of a phase, the server routes   *)
(* what they returned.  Messages are delivered as they were sent (what a   *)
(* client does with other messages is SpecClient).  The scenario is scaled *)
(* as the schemes are: the public parameters of setup, ve = JLVES.         *)
(***************************************************************************)
\* the key OwlClient.online_key_generation draws: randint(0, 2**key_size_jl)
OwlKeys == {0, 1}

\* the inputs of a client: vectors of the scenario's dimension and value size
RoundInputs(ve) == [1..ve.vectorsize -> 0..(2^ve.valuesize - 1)]

\* the tags a round hashes: those of the slots under the tags ts
RoundSlotTags(ve, ts) ==
    {SlotTag(SetupPP, i, t) : i \in 0..(ve.numbatches - 1), t \in ts}

\* the element-wise sum of the online clients' input vectors
RoundSum ==
    [i \in 1..pr.ve.vectorsize |->
        SumSeq([k \in 1..Len(pr_on) |-> pr_x[pr_on[k]][i]])]

RECURSIVE Owl_share_sum(_, _)
\* "sk_0_share = self.key_shares[1]; for vuser in range(2, nclients_on + 1):
\* sk_0_share += self.key_shares[vuser]" up to vuser = k: [err, val]
Owl_share_sum(key_shares, k) ==
    IF k <= 1 THEN Return(key_shares[1])
    ELSE LET sk_0_share == Owl_share_sum(key_shares, k - 1)
         IN IF sk_0_share.err # "" THEN sk_0_share
            ELSE Share_add(sk_0_share.val, key_shares[k])

\* OwlClient.online_construct: [err, val]
OwlClient_online_construct(thr, key_shares, clients_on) ==
    IF ~(Len(clients_on) + 1 >= thr) THEN Raise("AssertionError")
    ELSE Owl_share_sum(key_shares, Len(clients_on))

\* OwlServer.online_construct: [err, val]
OwlServer_online_construct(ve, thr, sk_0_shares, y) ==
    IF ~(Len(sk_0_shares) >= thr) THEN Raise("AssertionError")
    ELSE LET lag_coeffs == SSS_lagrange(sk_0_shares)
         IN IF lag_coeffs.err # "" THEN Raise(lag_coeffs.err)
            ELSE LET sk_0 == SSS_reconstruct(sk_0_shares, thr,
                                             lag_coeffs.coef)
                 IN IF sk_0.err # "" THEN sk_0
                    ELSE JLS_agg_list(ve, SetupPP,
                             ServerKeyJL(SetupPP, 0 - sk_0.val), 0, y)

IdleRound ==
    /\ pr = [proto |-> "none", nclients |-> 0, threshold |-> 0]
    /\ pr_pc = "none"
    /\ pr_key = <<>>
    /\ pr_key_shares = <<>>
    /\ pr_x = <<>>
    /\ pr_b_mask = <<>>
    /\ pr_prg = <<>>
    /\ pr_b_shares = <<>>
    /\ pr_y = <<>>
    /\ pr_on = <<>>
    /\ pr_answers = <<>>
    /\ pr_out = NoResult

\* online_key_generation on every client, OwlServer.online_key_generation,
\* online_key_generation2 on every client
OwlKeyGeneration ==
    /\ pr.proto = "Owl"
    /\ pr_pc = "setup_keysetup"
    /\ \E keys \in [1..pr.nclients -> OwlKeys],
          rnd \in [1..pr.nclients -> [1..(pr.threshold - 1) -> FieldCoeffs]] :
         /\ pr_key' = [u \in 1..pr.nclients |-> UserKeyJL(SetupPP, keys[u])]
         /\ pr_key_shares' =
              [u \in 1..pr.nclients |-> [v \in 1..pr.nclients |->
                  Share(u, SSS_share(keys[v], pr.threshold, pr.nclients,
                                     rnd[v])[u].value)]]
    /\ pr_pc' = "online_key_generation2"
    /\ UNCHANGED <<pr, pr_x, pr_b_mask, pr_prg, pr_b_shares, pr_y, pr_on,
                   pr_answers, pr_out>>
    /\ UNCHANGED notRound

\* new_fl_step, the input, online_encrypt on every client
OwlClientEncrypt ==
    /\ pr.proto = "Owl"
    /\ pr_pc = "online_key_generation2"
    /\ \E xs \in [1..pr.nclients -> RoundInputs(pr.ve)] :
         /\ pr_x' = xs
         /\ pr_y' = [u \in 1..pr.nclients |->
                        JLS_protect_list(pr.ve, SetupPP, pr_key[u], 0,
                                         xs[u]).val]
    /\ pr_pc' = "online_encrypt"
    /\ UNCHANGED <<pr, pr_key, pr_key_shares, pr_b_mask, pr_prg, pr_b_shares,
                   pr_on, pr_answers, pr_out>>
    /\ UNCHANGED notRound

\* OwlServer.online_encrypt on the protected inputs of the clients S that
\* stayed online
OwlServerEncrypt ==
    /\ pr.proto = "Owl"
    /\ pr_pc = "online_encrypt"
    /\ \E S \in SUBSET (1..pr.nclients) :
         IF ~(Cardinality(S) >= pr.threshold)
         THEN /\ pr_out' = Raise("AssertionError")
              /\ pr_pc' = "failed"
              /\ UNCHANGED pr_on
         ELSE /\ pr_on' = SortedSeq(S)
              /\ pr_pc' = "clients_on"
              /\ UNCHANGED pr_out
    /\ UNCHANGED <<pr, pr_key, pr_key_shares, pr_x, pr_b_mask, pr_prg,
                   pr_b_shares, pr_y, pr_answers>>
    /\ UNCHANGED notRound

\* online_construct(clients_on) on every online client
OwlClientConstruct ==
    /\ pr.proto = "Owl"
    /\ pr_pc = "clients_on"
    /\ pr_answers' =
         [k \in 1..Len(pr_on) |->
             OwlClient_online_construct(pr.threshold, pr_key_shares[pr_on[k]],
                                        pr_on)]
    /\ pr_pc' = "all_shares"
    /\ UNCHANGED <<pr, pr_key, pr_key_shares, pr_x, pr_b_mask, pr_prg,
                   pr_b_shares, pr_y, pr_on, pr_out>>
    /\ UNCHANGED notRound

\* OwlServer.online_construct on the answers
OwlServerConstruct ==
    /\ pr.proto = "Owl"
    /\ pr_pc = "all_shares"
    /\ \A k \in 1..Len(pr_answers) : pr_answers[k].err = ""
    /\ pr_out' = OwlServer_online_construct(pr.ve, pr.threshold,
                     [k \in 1..Len(pr_answers) |-> pr_answers[k].val],
                     [k \in 1..Len(pr_on) |-> pr_y[pr_on[k]]])
    /\ pr_pc' = "done"
    /\ UNCHANGED <<pr, pr_key, pr_key_shares, pr_x, pr_b_mask, pr_prg,
                   pr_b_shares, pr_y, pr_on, pr_answers>>
    /\ UNCHANGED notRound

\* the secrets ka_sk.agree gives a pair of FTSA clients
SvValues == {1, 2}

\* the seeds ClientFTSA.online_encrypt draws as b_mask: randint(0,
\* 2**PRG.security - 1) of different clients differ, the one of client u
\* is named u; what prg.eval_vector makes of each is drawn
PrgSeeds(nclients) == 1..nclients

\* the random coefficient of tjl.sk_share (signed) in a round
SkCoeffs == {0 - 1, 1}

\* add_vectors(xs, ys, mod): zip stops at the shorter one
add_vectors(xs, zs, mod) ==
    [i \in 1..(IF Len(xs) <= Len(zs) THEN Len(xs) ELSE Len(zs)) |->
        (xs[i] + zs[i]) % mod]

\* sub_vectors(xs, ys, mod)
sub_vectors(xs, zs, mod) ==
    [i \in 1..(IF Len(xs) <= Len(zs) THEN Len(xs) ELSE Len(zs)) |->
        (xs[i] - zs[i]) % mod]

RECURSIVE FTSA_key(_, _, _, _)
\* the loop of setup_keysetup over vuser = 1 .. k: "if vuser > self.user:
\* self.key -= sv else: self.key += sv"
FTSA_key(user, sv, k, key) ==
    IF k = 0 THEN key
    ELSE FTSA_key(user, sv, k - 1,
             IF k = user THEN key
             ELSE IF k > user THEN key - sv[{user, k}]
             ELSE key + sv[{user, k}])

\* ClientFTSA.online_encrypt: the protected masked input
ClientFTSA_online_encrypt(ve, key, step, x, b_mask_vector) ==
    LET x_masked == add_vectors(x, b_mask_vector, 2^ve.elementsize)
    IN JLS_protect_list(ve, SetupPP, key, step, x_masked)

\* ClientFTSA.online_construct after its loop over e_shares: the share of
\* y_zero from the key shares of the clients that are not online, None
\* (NoResult) when there is none
ClientFTSA_y_zero_share(ve, sk_shares, clients, clients_on, step) ==
    LET drops == {v \in clients : v \notin clients_on}
        drop_shares == [k \in 1..Cardinality(drops) |->
                           sk_shares[SortedSeq(drops)[k]]]
    IN IF drops = {} THEN NoResult
       ELSE TJLS_share_protect_list(ve, SetupPP, drop_shares, step)

RECURSIVE unmask(_, _, _, _)
\* "for user in b_mask_vector: x_masked = sub_vectors(x_masked,
\* b_mask_vector[user], 2 ** elementsize)" from the k-th online user on
unmask(ve, x_masked, b_mask_vector, k) ==
    IF k > Len(b_mask_vector) THEN x_masked
    ELSE unmask(ve, sub_vectors(x_masked, b_mask_vector[k],
                                2^ve.elementsize), b_mask_vector, k + 1)

\* ServerFTSA.online_construct: allbshares and zero_shares (y_zero_shares)
\* in the order of the online clients, y the protected inputs: [err, val]
ServerFTSA_online_construct(ve, thr, n, prg, allbshares, zero_shares, y) ==
    IF ~(Len(allbshares) >= thr) THEN Raise("AssertionError")
    ELSE LET owners == SortedSeq(DOMAIN allbshares[1])
             b_shares == [j \in 1..Len(owners) |->
                            [k \in 1..Len(allbshares) |->
                                allbshares[k][owners[j]]]]
             lag_coeffs == SSS_lagrange(b_shares[1])
             b_mask == [j \in 1..Len(owners) |->
                          SSS_reconstruct(b_shares[j], thr, lag_coeffs.coef)]
             given == SelectSeq(zero_shares, LAMBDA z : z.err = "")
             y_zero == IF given = <<>> THEN NoResult
                       ELSE IF ~(Len(given) >= thr)
                       THEN Raise("AssertionError")
                       ELSE TJLS_share_combine_list(SetupPP,
                                factorial(n),
                                [k \in 1..Len(given) |-> given[k].val], thr)
         IN IF lag_coeffs.err # "" THEN Raise(lag_coeffs.err)
            ELSE IF \E j \in 1..Len(owners) : b_mask[j].err # ""
            THEN Raise("AssertionError")
            ELSE IF y_zero.err \notin {"", "none"} THEN y_zero
            ELSE LET x_masked == TJLS_agg_list(ve, factorial(n),
                                     SetupPP, ServerKeyJL(SetupPP, 0), 0, y,
                                     y_zero)
                 IN IF x_masked.err # "" THEN x_masked
                    ELSE Return(unmask(ve, x_masked.val,
                                    [j \in 1..Len(owners) |->
                                        prg[b_mask[j].val]], 1))

\* setup_keysetup on every client, ServerFTSA.setup_keysetup, setup_keysetup2
\* on every client
FTSAKeySetup ==
    /\ pr.proto = "FTSA"
    /\ pr_pc = "setup_register"
    /\ \E sv \in [{P \in SUBSET (1..pr.nclients) : Cardinality(P) = 2}
                    -> SvValues],
          rnd \in [1..(pr.threshold - 1) -> SkCoeffs] :
         LET key == [u \in 1..pr.nclients |-> FTSA_key(u, sv, pr.nclients, 0)]
         IN /\ pr_key' = [u \in 1..pr.nclients |-> UserKeyJL(SetupPP, key[u])]
            /\ pr_key_shares' =
                 [u \in 1..pr.nclients |-> [v \in 1..pr.nclients |->
                     Share(u, ISSS_share(key[v], pr.threshold, pr.nclients,
                                         rnd)[u].value)]]
    /\ pr_pc' = "setup_keysetup2"
    /\ UNCHANGED <<pr, pr_x, pr_b_mask, pr_prg, pr_b_shares, pr_y, pr_on,
                   pr_answers, pr_out>>
    /\ UNCHANGED notRound

\* new_fl_step, the input, online_encrypt on the clients S that stay online
FTSAClientEncrypt ==
    /\ pr.proto = "FTSA"
    /\ pr_pc = "setup_keysetup2"
    /\ \E S \in SUBSET (1..pr.nclients) :
         \E xs \in [S -> RoundInputs(pr.ve)],
            rnd \in [1..(pr.threshold - 1) -> FieldCoeffs] :
           LET b_mask == [u \in S |-> u]
           IN
           /\ pr_x' = xs
           /\ pr_b_mask' = b_mask
           /\ pr_y' = [u \in S |->
                          ClientFTSA_online_encrypt(pr.ve, pr_key[u], 1, xs[u],
                                                    pr_prg[b_mask[u]]).val]
           /\ pr_b_shares' =
                [u \in S |-> [v \in S |->
                    Share(u, SSS_share(b_mask[v], pr.threshold, pr.nclients,
                                       rnd)[u].value)]]
    /\ pr_pc' = "online_encrypt"
    /\ UNCHANGED <<pr, pr_key, pr_key_shares, pr_prg, pr_on, pr_answers,
                   pr_out>>
    /\ UNCHANGED notRound

\* ServerFTSA.online_encrypt on what the online clients sent
FTSAServerEncrypt ==
    /\ pr.proto = "FTSA"
    /\ pr_pc = "online_encrypt"
    /\ IF ~(Cardinality(DOMAIN pr_y) >= pr.threshold)
       THEN /\ pr_out' = Raise("AssertionError")
            /\ pr_pc' = "failed"
            /\ UNCHANGED pr_on
       ELSE /\ pr_on' = SortedSeq(DOMAIN pr_y)
            /\ pr_pc' = "clients_on"
            /\ UNCHANGED pr_out
    /\ UNCHANGED <<pr, pr_key, pr_key_shares, pr_x, pr_b_mask, pr_prg,
                   pr_b_shares, pr_y, pr_answers>>
    /\ UNCHANGED notRound

\* online_construct on every online client: (b_shares, y_zero_share)
FTSAClientConstruct ==
    /\ pr.proto = "FTSA"
    /\ pr_pc = "clients_on"
    /\ pr_answers' =
         [k \in 1..Len(pr_on) |->
             [b |-> pr_b_shares[pr_on[k]],
              zero |-> ClientFTSA_y_zero_share(pr.ve,
                           pr_key_shares[pr_on[k]], 1..pr.nclients,
                           DOMAIN pr_y, 1)]]
    /\ pr_pc' = "all_b_shares"
    /\ UNCHANGED <<pr, pr_key, pr_key_shares, pr_x, pr_b_mask, pr_prg,
                   pr_b_shares, pr_y, pr_on, pr_out>>
    /\ UNCHANGED notRound

\* ServerFTSA.online_construct on the answers
FTSAServerConstruct ==
    /\ pr.proto = "FTSA"
    /\ pr_pc = "all_b_shares"
    /\ pr_out' = ServerFTSA_online_construct(pr.ve, pr.threshold, pr.nclients,
                     pr_prg,
                     [k \in 1..Len(pr_answers) |-> pr_answers[k].b],
                     [k \in 1..Len(pr_answers) |-> pr_answers[k].zero],
                     [k \in 1..Len(pr_on) |-> pr_y[pr_on[k]]])
    /\ pr_pc' = "done"
    /\ UNCHANGED <<pr, pr_key, pr_key_shares, pr_x, pr_b_mask, pr_prg,
                   pr_b_shares, pr_y, pr_on, pr_answers>>
    /\ UNCHANGED notRound

(***************************************************************************)
(* Encrypted numbers created under several parameter objects.              *)
(***************************************************************************)
\* a second modulus: the product of the safe primes 7 and 11
OtherN == 7 * 11

\* parameter objects: two moduli, and for each two distinct objects
ParamObjects ==
    {PublicParamJL(n, bits) :
        n \in {RingN, OtherN}, bits \in {bit_length(RingN), bit_length(OtherN)}}

IdleParams ==
    /\ encA = <<>>
    /\ encB = <<>>
    /\ ppcall = NoCall
    /\ ppres = NoResult

\* UserKeyJL(pp, s).encrypt(x, tau): the next of the two encrypted numbers,
\* both created before the first operation on them
ParamEncrypt ==
    /\ encB = <<>>
    /\ ppcall.op = ""
    /\ \E pp \in ParamObjects, s \in UserKeys, x \in 0..MaxInput :
         LET c == UserKeyJL_encrypt(UserKeyJL(pp, s), x, tau)
         IN /\ encA' = IF encA = <<>> THEN c ELSE encA
            /\ encB' = IF encA = <<>> THEN encB ELSE c
    /\ UNCHANGED <<ppcall, ppres>>
    /\ UNCHANGED notParams

\* encA + encB
ParamAdd ==
    /\ encB # <<>>
    /\ ppres' = add_encrypted(encA, encB)
    /\ ppcall' = Call("add", encA, encB)
    /\ UNCHANGED <<encA, encB>>
    /\ UNCHANGED notParams

\* encA += encB, encB the next element of a list and not used again
ParamIAdd ==
    /\ encB # <<>>
    /\ LET r == add_encrypted(encA, encB)
       IN /\ ppres' = r
          /\ encA' = IF r.err = "" THEN r.val ELSE encA
          /\ encB' = IF r.err = "" THEN <<>> ELSE encB
    /\ ppcall' = Call("iadd", encA, encB)
    /\ UNCHANGED notParams

\* ServerKeyJL(pp, s).decrypt(encA, tau)
ParamDecrypt ==
    /\ encA # <<>>
    /\ \E pp \in ParamObjects, s \in UserKeys :
         /\ ppres' = ServerKeyJL_decrypt(ServerKeyJL(pp, 0 - s), encA, tau, 1,
                                         FALSE)
         /\ ppcall' = Call("decrypt", ServerKeyJL(pp, 0 - s), encA)
    /\ UNCHANGED <<encA, encB>>
    /\ UNCHANGED notParams

\* the base scheme, with and without vector encoding
InitJL ==
    /\ IdleRound
    /\ IdleClient
    /\ IdleTag
    /\ IdleAdd
    /\ IdleSS
    /\ IdleVES
    /\ jl \in {Scheme("JLS", vector, 0, nusers) :
                  vector \in BOOLEAN, nusers \in 2..NUsersJL}
    /\ RoundNotStarted
    /\ IdleField
    /\ IdleFDH
    /\ IdleParams

NextJL ==
    \/ JLSetup
    \/ JLRound
    \/ Protect
    \/ Agg

SpecJL == InitJL /\ [][NextJL]_vars

\* rounds without dropouts, aggregated by the three schemes
NextNoDrop ==
    \/ JLSetup
    \/ JLRound
    \/ Protect
    \/ AggThree

SpecNoDrop == InitJL /\ [][NextNoDrop]_vars

\* the two threshold schemes; TJLS asserts threshold <= nusers
InitTJL ==
    /\ IdleRound
    /\ IdleClient
    /\ IdleTag
    /\ IdleAdd
    /\ IdleSS
    /\ IdleVES
    /\ jl \in {Scheme(cls, vector, t, nusers) :
                  cls \in {"TJLS", "TD_TJLS"}, vector \in BOOLEAN,
                  t \in 1..NUsersJL, nusers \in 2..NUsersJL}
    /\ jl.threshold <= jl.nusers
    /\ RoundNotStarted
    /\ IdleField
    /\ IdleFDH
    /\ IdleParams

NextTJL ==
    \/ JLSetup
    \/ JLRound
    \/ SkShare
    \/ Protect
    \/ ShareProtect
    \/ ShareCombine
    \/ Agg

SpecTJL == InitTJL /\ [][NextTJL]_vars

\* rounds on vectors, of the three schemes, that end with vectors of
\* different lengths at the server
InitLen ==
    /\ IdleRound
    /\ IdleClient
    /\ IdleTag
    /\ IdleAdd
    /\ IdleSS
    /\ IdleVES
    /\ jl \in {Scheme(cls, TRUE, t, nusers) :
                  cls \in {"JLS", "TJLS", "TD_TJLS"},
                  t \in 0..NUsersJL, nusers \in 2..NUsersJL}
    /\ (jl.cls = "JLS") = (jl.threshold = 0)
    /\ jl.threshold <= jl.nusers
    /\ RoundNotStarted
    /\ IdleField
    /\ IdleFDH
    /\ IdleParams

NextLen ==
    \/ JLSetup
    \/ JLRound
    \/ SkShare
    \/ Protect
    \/ ShareProtect
    \/ ShareCombine
    \/ AggResized

SpecLen == InitLen /\ [][NextLen]_vars

\* share_protect of the scheme by user u, holding the one share k
ZeroShareOf(u, k) ==
    IF jl.cls = "TJLS"
    THEN IF jl.vector
         THEN TJLS_share_protect_list(JLVES(jl.nusers), SetupPP,
                                      <<Share(u, k)>>, tau).val
         ELSE TJLS_share_protect(SetupPP, <<Share(u, k)>>, tau).val
    ELSE IF jl.vector
         THEN TD_TJLS_share_protect_list(JLVES(jl.nusers), SetupPP,
                                         <<Share(u, k)>>, tau).val
         ELSE TD_TJLS_share_protect(SetupPP, <<Share(u, k)>>, tau).val

\* the server of the two threshold schemes, holding the zero-shares the online
\* users sent for a round with dropped users
InitQuorum ==
    /\ IdleRound
    /\ IdleClient
    /\ IdleTag
    /\ IdleAdd
    /\ IdleSS
    /\ IdleVES
    /\ IdleField
    /\ IdleFDH
    /\ IdleParams
    /\ jl \in {Scheme(cls, vector, t, nusers) :
                  cls \in {"TJLS", "TD_TJLS"}, vector \in BOOLEAN,
                  t \in 1..NUsersJL, nusers \in 2..NUsersJL}
    /\ jl.threshold <= jl.nusers
    /\ jl_pc = "online"
    /\ tau \in Taus
    /\ hashOf \in [RoundTags(tau) -> HashValues]
    /\ dropped \in DropSets \ {{}}
    /\ \E held \in [Online -> UserKeys] :
         zeroShares = [u \in Online |-> ZeroShareOf(u, held[u])]
    /\ userKeys = <<>>
    /\ serverKey = ServerKeyJL(SetupPP, 0)
    /\ keyShares = <<>>
    /\ inputs = <<>>
    /\ ys = <<>>
    /\ combineOut = NoResult
    /\ aggOut = NoResult

NextQuorum == ShareCombineShort

SpecQuorum == InitQuorum /\ [][NextQuorum]_vars

\* setup alone, of the three schemes
InitSetup ==
    /\ IdleRound
    /\ IdleClient
    /\ IdleTag
    /\ IdleAdd
    /\ IdleSS
    /\ IdleVES
    /\ jl \in {Scheme(cls, vector, t, nusers) :
                  cls \in {"JLS", "TJLS", "TD_TJLS"}, vector \in BOOLEAN,
                  t \in 0..NUsersJL, nusers \in 2..NUsersJL}
    /\ (jl.cls = "JLS") = (jl.threshold = 0)
    /\ jl.threshold <= jl.nusers
    /\ RoundNotStarted
    /\ IdleField
    /\ IdleFDH
    /\ IdleParams

NextSetup == JLSetup

SpecSetup == InitSetup /\ [][NextSetup]_vars

InitField ==
    /\ IdleRound
    /\ IdleClient
    /\ IdleTag
    /\ IdleAdd
    /\ IdleSS
    /\ IdleVES
    /\ IdleJL
    /\ IdleField
    /\ IdleFDH
    /\ IdleParams

NextField ==
    \/ FieldFromInt
    \/ FieldFromBytes
    \/ FieldAdd
    \/ FieldSub
    \/ FieldMul
    \/ FieldDiv
    \/ FieldInverse
    \/ FieldPow
    \/ FieldMod

SpecField == InitField /\ [][NextField]_vars

\* an FDH object keyed with n or with n * n, as JLS.setup keys it
InitFDH ==
    /\ IdleRound
    /\ IdleClient
    /\ IdleTag
    /\ IdleAdd
    /\ IdleSS
    /\ IdleVES
    /\ IdleJL
    /\ IdleField
    /\ IdleParams
    /\ fdh \in {FDH(bitsize, N) :
                   bitsize \in {8, FDHBits}, N \in {RingN, RingN * RingN}}
    /\ digest \in [0..1 -> [1..CounterMax -> DigestBytes]]
    /\ hres = NoResult

NextFDH == HashTag

SpecFDH == InitFDH /\ [][NextFDH]_vars

\* a caller holding keys and ciphertexts of several parameter objects
InitParams ==
    /\ IdleRound
    /\ IdleClient
    /\ IdleTag
    /\ IdleAdd
    /\ IdleSS
    /\ IdleVES
    /\ IdleField
    /\ IdleFDH
    /\ IdleParams
    /\ jl = Scheme("", FALSE, 0, 0)
    /\ jl_pc = "new"
    /\ tau \in Taus
    /\ hashOf \in [Taus -> HashValues]
    /\ userKeys = <<>>
    /\ serverKey = ServerKeyJL(SetupPP, 0)
    /\ dropped = {}
    /\ keyShares = <<>>
    /\ inputs = <<>>
    /\ ys = <<>>
    /\ zeroShares = <<>>
    /\ combineOut = NoResult
    /\ aggOut = NoResult

NextParams ==
    \/ ParamEncrypt
    \/ ParamAdd
    \/ ParamIAdd
    \/ ParamDecrypt

SpecParams == InitParams /\ [][NextParams]_vars

(***************************************************************************)
(* SpecAdd.                                                                *)
(***************************************************************************)
InitAdd ==
    /\ IdleRound
    /\ IdleClient
    /\ IdleTag
    /\ IdleSS
    /\ IdleVES
    /\ IdleJL
    /\ IdleField
    /\ IdleFDH
    /\ IdleParams
    /\ ad_scheme \in {"SSS", "ISSS", "Shoup"}
    /\ ad_t \in Thresholds
    /\ ad_secrets = <<>>
    /\ ad_last = <<>>
    /\ ad_sum = <<>>
    /\ ad_add = NoAdd
    /\ ad_rec = NoAdd

NextAdd ==
    \/ NewSharing
    \/ ShareAdd
    \/ SumReconstruct

SpecAdd == InitAdd /\ [][NextAdd]_vars

(***************************************************************************)
(* SpecTag.                                                                *)
(***************************************************************************)
InitTag ==
    /\ IdleRound
    /\ IdleClient
    /\ IdleSS
    /\ IdleVES
    /\ IdleJL
    /\ IdleField
    /\ IdleFDH
    /\ IdleParams
    /\ IdleAdd
    /\ tg_pp \in {PublicParamJL(RingN, bits) : bits \in 2..MaxTagBits}
    /\ tg_a = NoTag
    /\ tg_b = NoTag

NextTag == TagSlot

SpecTag == InitTag /\ [][NextTag]_vars

(***************************************************************************)
(* SpecClient.                                                             *)
(***************************************************************************)
\* a client after setup_keysetup (FTSA: its own key share) or after
\* share_keys (SecAgg: its own key share and b-mask share)
InitClient ==
    /\ IdleRound
    /\ IdleSS
    /\ IdleVES
    /\ IdleJL
    /\ IdleField
    /\ IdleFDH
    /\ IdleParams
    /\ IdleAdd
    /\ IdleTag
    /\ cl \in {[proto |-> proto, user |-> user, threshold |-> t,
                nclients |-> NClients] :
                  proto \in {"FTSA", "SecAgg"}, user \in 1..NClients,
                  t \in 2..NClients}
    /\ cl_pc = IF cl.proto = "FTSA" THEN "setup_keysetup" ELSE "share_keys"
    /\ cl_e_shares = <<>>
    /\ cl_sk_shares = (cl.user :> Share(cl.user, KShareOf(cl.user, cl.user)))
    /\ cl_b_shares = IF cl.proto = "FTSA" THEN <<>>
                     ELSE (cl.user :> Share(cl.user,
                                            BShareOf(cl.user, cl.user)))
    /\ cl_out = NoOut
    /\ cl_released = {}

NextClient ==
    \/ FTSAKeySetup2
    \/ FTSAOnlineEncrypt
    \/ FTSAOnlineConstruct
    \/ SecAggCollect
    \/ SecAggUnmasking

SpecClient == InitClient /\ [][NextClient]_vars

(***************************************************************************)
(* SpecOwl.                                                                *)
(***************************************************************************)
\* OwlClient.set_scenario, OwlServer.set_scenario, setup_register and
\* setup_keysetup done; threshold = ceil(2 * nclients / 3)
InitOwl ==
    /\ IdleSS
    /\ IdleVES
    /\ IdleField
    /\ IdleFDH
    /\ IdleParams
    /\ IdleAdd
    /\ IdleTag
    /\ IdleClient
    /\ jl = Scheme("", FALSE, 0, 0)
    /\ jl_pc = "new"
    /\ hashOf \in [RoundSlotTags(JLVES(NClients), {0}) -> HashValues]
    /\ tau = 0
    /\ userKeys = <<>>
    /\ serverKey = ServerKeyJL(SetupPP, 0)
    /\ dropped = {}
    /\ keyShares = <<>>
    /\ inputs = <<>>
    /\ ys = <<>>
    /\ zeroShares = <<>>
    /\ combineOut = NoResult
    /\ aggOut = NoResult
    /\ pr = [proto |-> "Owl", nclients |-> NClients,
             threshold |-> (2 * NClients + 2) \div 3, ve |-> JLVES(NClients)]
    /\ pr_pc = "setup_keysetup"
    /\ pr_key = <<>>
    /\ pr_key_shares = <<>>
    /\ pr_x = <<>>
    /\ pr_b_mask = <<>>
    /\ pr_prg = <<>>
    /\ pr_b_shares = <<>>
    /\ pr_y = <<>>
    /\ pr_on = <<>>
    /\ pr_answers = <<>>
    /\ pr_out = NoResult

NextOwl ==
    \/ OwlKeyGeneration
    \/ OwlClientEncrypt
    \/ OwlServerEncrypt
    \/ OwlClientConstruct
    \/ OwlServerConstruct

SpecOwl == InitOwl /\ [][NextOwl]_vars

(***************************************************************************)
(* SpecFTSA.                                                               *)
(***************************************************************************)
\* ClientFTSA.set_scenario, ServerFTSA.set_scenario and setup_register done;
\* threshold = ceil(2 * nclients / 3) as in test_ftsa.py
InitFTSA ==
    /\ IdleSS
    /\ IdleVES
    /\ IdleField
    /\ IdleFDH
    /\ IdleParams
    /\ IdleAdd
    /\ IdleTag
    /\ IdleClient
    /\ jl = Scheme("", FALSE, 0, 0)
    /\ jl_pc = "new"
    /\ \E nclients \in 2..NClients :
         /\ pr = [proto |-> "FTSA", nclients |-> nclients,
                  threshold |-> (2 * nclients + 2) \div 3,
                  ve |-> JLVES(nclients)]
         /\ \E h \in HashValues :
              hashOf = [t \in RoundSlotTags(JLVES(nclients), {0, 1}) |-> h]
         /\ pr_prg \in [PrgSeeds(nclients) -> {<<0, 0>>, <<1, 1>>}]
    /\ tau = 0
    /\ userKeys = <<>>
    /\ serverKey = ServerKeyJL(SetupPP, 0)
    /\ dropped = {}
    /\ keyShares = <<>>
    /\ inputs = <<>>
    /\ ys = <<>>
    /\ zeroShares = <<>>
    /\ combineOut = NoResult
    /\ aggOut = NoResult
    /\ pr_pc = "setup_register"
    /\ pr_key = <<>>
    /\ pr_key_shares = <<>>
    /\ pr_x = <<>>
    /\ pr_b_mask = <<>>
    /\ pr_b_shares = <<>>
    /\ pr_y = <<>>
    /\ pr_on = <<>>
    /\ pr_answers = <<>>
    /\ pr_out = NoResult

NextFTSA ==
    \/ FTSAKeySetup
    \/ FTSAClientEncrypt
    \/ FTSAServerEncrypt
    \/ FTSAClientConstruct
    \/ FTSAServerConstruct

SpecFTSA == InitFTSA /\ [][NextFTSA]_vars

(***************************************************************************)
(* SpecVES.                                                                *)
(***************************************************************************)
InitVES ==
    /\ IdleRound
    /\ IdleClient
    /\ IdleTag
    /\ IdleAdd
    /\ IdleSS
    /\ IdleJL
    /\ IdleField
    /\ IdleFDH
    /\ IdleParams
    /\ ves \in VESConfigs
    /\ nenc = 0
    /\ sumV = <<>>
    /\ sumE = <<>>
    /\ decoded = NotDecoded

NextVES ==
    \/ VESEncode
    \/ VESDecode

SpecVES == InitVES /\ [][NextVES]_vars

(***************************************************************************)
(* SpecSS.                                                                 *)
(***************************************************************************)
InitSS ==
    /\ IdleRound
    /\ IdleClient
    /\ IdleTag
    /\ IdleAdd
    /\ IdleSS
    /\ IdleVES
    /\ IdleJL
    /\ IdleField
    /\ IdleFDH
    /\ IdleParams

NextSS ==
    \/ SSSShare
    \/ ISSSShare
    \/ ShoupShare
    \/ SSSLagrange
    \/ ISSSLagrange
    \/ ShoupLagrange
    \/ SSSReconstruct
    \/ ISSSReconstruct
    \/ ShoupReconstruct

SpecSS == InitSS /\ [][NextSS]_vars

\* a holder of the shares of one of a few small polynomials, computing
\* coefficients for lists of them
InitLag ==
    /\ IdleRound
    /\ IdleClient
    /\ IdleTag
    /\ IdleAdd
    /\ IdleVES
    /\ IdleJL
    /\ IdleField
    /\ IdleFDH
    /\ IdleParams
    /\ scheme \in {"SSS", "ISSS"}
    /\ ss_pc = "shared"
    /\ secret \in {0, 1}
    /\ threshold \in Thresholds
    /\ coeffs \in [1..(threshold - 1) -> {0, 1}]
    /\ shares = IF scheme = "SSS"
                THEN SSS_share(secret, threshold, NUsersSS, coeffs)
                ELSE ISSS_share(secret, threshold, NUsersSS, coeffs)
    /\ lagList = <<>>
    /\ lagOut = NoLag
    /\ recList = <<>>
    /\ recOut = NoResult

NextLag ==
    \/ SSSLagrange
    \/ ISSSLagrange

SpecLag == InitLag /\ [][NextLag]_vars

(***************************************************************************)
(* Claims about the secret sharing schemes, checked under SpecSS.          *)
(***************************************************************************)
\* reconstruct was called on the very list lagrange was computed for, the
\* list has no repeated index and holds at least threshold shares
SameListQuorum ==
    /\ ss_pc = "done"
    /\ recList = lagList
    /\ lagOut.err = ""
    /\ Len(recList) >= threshold

\* C1: Shamir round trip.  Whatever the secret in 0..p-1, the threshold and
\* the random coefficients, reconstructing from any list of at least
\* threshold distinct shares, with the coefficients lagrange computed for that
\* list, returns the secret.
C1_ShamirRoundTrip ==
    (scheme = "SSS" /\ SameListQuorum) => recOut = Return(secret)

\* a size-t subset that is not the prefix shares[:t], a non-constant polynomial
C1_Witness ==
    /\ scheme = "SSS" /\ SameListQuorum
    /\ threshold = 2 /\ Len(recList) = 2
    /\ recList[1].idx = 3 /\ recList[2].idx = 2
    /\ coeffs[1] # 0 /\ secret = 3
    /\ recOut = Return(3)

\* C5: integer sharing round trip.  For every integer secret, threshold and
\* signed coefficients, reconstructing from at least threshold distinct shares
\* with delta = nusers! returns the secret, and the weighted sum divided by
\* delta squared leaves no remainder.
C5_IntegerRoundTrip ==
    (scheme = "ISSS" /\ SameListQuorum) =>
        /\ recOut = Return(secret)
        /\ int_sum(recList, lagOut.coef, Len(recList))
             = secret * factorial(NUsersSS) * factorial(NUsersSS)

\* a negative secret, a negative coefficient, a subset that is not a prefix
C5_Witness ==
    /\ scheme = "ISSS" /\ SameListQuorum
    /\ threshold = 2 /\ Len(recList) = 2
    /\ recList[1].idx = 3 /\ recList[2].idx = 1
    /\ coeffs[1] < 0 /\ secret = 0 - 1
    /\ recOut = Return(0 - 1)

\* C6: exact integer Lagrange coefficients.  For every non-empty list of
\* distinct indices of 1..nusers and delta = nusers!, each coefficient that
\* ISSS.lagrange and ShoupSSS.lagrange return, times its denominator, is
\* delta times its numerator: the floor division loses nothing.
C6_ExactCoefficients ==
    (scheme \in {"ISSS", "Shoup"} /\ ss_pc \in {"lagged", "done"}
        /\ lagOut.err = "") =>
        \A j \in 1..Len(lagList) :
            lagOut.coef[lagList[j].idx]
                * int_denominator(Indices(lagList), j, Len(lagList))
            = factorial(NUsersSS)
                * int_numerator(Indices(lagList), j, Len(lagList))

\* three distinct indices, one coefficient negative
C6_Witness ==
    /\ scheme = "ISSS" /\ ss_pc = "lagged" /\ lagOut.err = ""
    /\ Len(lagList) = 3
    /\ \E j \in 1..3 : lagOut.coef[lagList[j].idx] < 0

\* C7: under-quorum reconstruction is rejected.  reconstruct of any of the
\* three schemes, given fewer shares than the threshold, raises and returns
\* nothing; lagrange on such a list of distinct shares does not fail.
C7_UnderQuorumRejected ==
    /\ (ss_pc = "done" /\ Len(recList) < threshold) =>
           recOut = Raise("AssertionError")
    /\ (ss_pc \in {"lagged", "done"} /\ Len(lagList) < threshold
            /\ ~HasDuplicate(Indices(lagList))) => lagOut.err = ""

\* the case of test_invalid_threshold: threshold - 1 shares, coefficients
\* computed for them without error, reconstruct raises
C7_Witness ==
    /\ scheme = "SSS" /\ ss_pc = "done"
    /\ threshold = 3 /\ Len(recList) = 2 /\ recList = lagList
    /\ lagOut.err = "" /\ DOMAIN lagOut.coef = {1, 2}
    /\ recOut = Raise("AssertionError")

\* C8: duplicate indices are rejected.  reconstruct and lagrange of the three
\* schemes raise, and return nothing, whenever two shares of the list carry
\* the same index, also when the list holds at least threshold shares.
C8_DuplicatesRejected ==
    /\ (ss_pc = "done" /\ HasDuplicate(Indices(recList))) =>
           recOut.err \in {"ValueError", "AssertionError"}
    /\ (ss_pc = "done" /\ HasDuplicate(Indices(recList))
            /\ Len(recList) >= threshold) => recOut = Raise("ValueError")
    /\ (ss_pc \in {"lagged", "done"} /\ HasDuplicate(Indices(lagList))) =>
           lagOut.err = "ValueError"

\* enough shares, valid coefficients for the distinct ones, one share repeated
C8_Witness ==
    /\ scheme = "ISSS" /\ ss_pc = "done"
    /\ threshold = 2 /\ Len(recList) = 3
    /\ lagOut.err = "" /\ Len(lagList) = 2
    /\ recList[3].idx = recList[1].idx
    /\ recOut = Raise("ValueError")

(***************************************************************************)
(* Claims about the vector encoding, checked under SpecVES.                *)
(***************************************************************************)
\* C9: vector round trip.  For every vector of at most vectorsize elements,
\* each in 0 .. 2^valuesize - 1 (zeros included), decode(encode(V)) is V,
\* element for element and with the same length.
C9_VectorRoundTrip ==
    (decoded.done /\ nenc = 1) => decoded.V = sumV

\* C10: headroom absorbs carries.  For k <= addops vectors of the configured
\* length with elements below 2^valuesize, decoding the batch-wise sums of
\* their encodings returns the element-wise sums of the vectors.
C10_HeadroomAbsorbsCarries ==
    (decoded.done /\ Len(sumV) = ves.vectorsize) => decoded.V = sumV

\* What the code does keep (not a claim of the list): when no element of the
\* sum is zero the decoded sum is the element-wise sum, so no slot carries
\* into its neighbour; the two claims above fail through zero slots only.
VES_NonZeroSumsDecode ==
    (decoded.done /\ \A i \in 1..Len(sumV) : sumV[i] # 0) => decoded.V = sumV

(***************************************************************************)
(* Claims about the Joye-Libert schemes, checked under SpecJL and SpecTJL. *)
(***************************************************************************)
RECURSIVE SumOf(_, _)
\* the sum of the scalar inputs of a set of users
SumOf(xs, S) ==
    IF S = {} THEN 0
    ELSE LET u == CHOOSE w \in S : TRUE
         IN xs[u] + SumOf(xs, S \ {u})

RECURSIVE VecSumOf(_, _, _)
\* the element-wise sum of the vector inputs of a set of users
VecSumOf(xs, S, len) ==
    IF S = {} THEN [i \in 1..len |-> 0]
    ELSE LET u == CHOOSE w \in S : TRUE
         IN AddSeq(xs[u], VecSumOf(xs, S \ {u}, len))

KeysSumToZero ==
    serverKey.s + SumKeys([u \in Users |-> userKeys[u].s], jl.nusers) = 0

\* the sum of the online users' inputs: what the round is to return
ExpectedSum ==
    IF jl.vector
    THEN VecSumOf(inputs, Online, JLVES(jl.nusers).vectorsize)
    ELSE SumOf(inputs, Online)

\* C4: additive homomorphism of JLS.  With user keys and server key summing
\* to 0 and every key holder protecting an integer input under the same
\* public parameters and round tag, JLS.agg on all the ciphertexts returns
\* the sum of the inputs whenever that sum is below n (two key holders
\* included: decrypt(protect(a,k1,tau) * protect(b,k2,tau)) = a + b).
C4_AdditiveHomomorphism ==
    (/\ jl_pc = "done"
     /\ jl.cls = "JLS"
     /\ ~jl.vector
     /\ KeysSumToZero
     /\ SumOf(inputs, Users) < SetupPP.n)
    => aggOut = Return(SumOf(inputs, Users))

\* two key holders with non-zero keys and inputs have aggregated, and their
\* ciphertexts differ from the bare encodings 1 + n*x
C4_Witness ==
    /\ jl_pc = "done"
    /\ jl.cls = "JLS"
    /\ ~jl.vector
    /\ jl.nusers = 2
    /\ KeysSumToZero
    /\ userKeys[1].s # userKeys[2].s
    /\ inputs[1] = 1
    /\ inputs[2] = MaxInput
    /\ ys[1].ciphertext # 1 + SetupPP.n
    /\ aggOut = Return(1 + MaxInput)

\* the round of a threshold scheme is over with users dropped and a quorum
\* of zero-shares combined
DroppedRoundDone(cls) ==
    /\ jl_pc = "done"
    /\ jl.cls = cls
    /\ dropped # {}
    /\ combineOut.err = ""

\* C2: dropout equivalence of TJLS.  For every set D of dropped users with
\* 1 <= |D| <= n - t and every set of at least t survivors whose zero-shares
\* are combined, agg on the survivors' ciphertexts and the combined
\* zero-share returns the sum of the survivors' inputs.
C2_DropoutEquivalenceTJLS ==
    (DroppedRoundDone("TJLS") /\ (~jl.vector => ExpectedSum < SetupPP.n))
    => aggOut = Return(ExpectedSum)

\* the sum of the online users' inputs is one ve.decode reads back as it was
\* encoded (always so for integer inputs)
SumDecodable ==
    jl.vector =>
        VES_decode(JLVES(jl.nusers),
                   VES_encode(JLVES(jl.nusers), ExpectedSum)) = ExpectedSum

\* the part of C2 that holds: integer inputs, and vectors whose sum is read
\* back by ve.decode as it was encoded
TJLS_DropoutWhereDecodable ==
    (/\ DroppedRoundDone("TJLS")
     /\ ~jl.vector => ExpectedSum < SetupPP.n
     /\ SumDecodable)
    => aggOut = Return(ExpectedSum)

\* C3: dropout equivalence of TD_TJLS.  For every set D of dropped users
\* with |D| <= n - t and every set of at least t survivors, share_protect,
\* share_combine and agg return the sum of the survivors' inputs; with D
\* empty and no zero-share, agg returns the sum of all inputs.  Stated on
\* the rounds whose sum ve.decode reads back, where a wrong result is the
\* scheme's own.
C3_DropoutEquivalenceTD ==
    (/\ jl_pc = "done"
     /\ jl.cls = "TD_TJLS"
     /\ ~jl.vector => ExpectedSum < SetupPP.n
     /\ SumDecodable)
    => aggOut = Return(ExpectedSum)

\* the part of C3 that holds: no dropped users
TD_NoDropout ==
    (/\ jl_pc = "done"
     /\ jl.cls = "TD_TJLS"
     /\ dropped = {}
     /\ ~jl.vector => ExpectedSum < SetupPP.n
     /\ SumDecodable)
    => aggOut = Return(ExpectedSum)

\* the part of C3 that holds: the shares of the dropped users' keys all
\* wrapped around n * phi_n equally often (threshold 2: the polynomial is
\* key + coefficient * idx)
TD_EqualWraps ==
    (/\ DroppedRoundDone("TD_TJLS")
     /\ jl.threshold <= 2
     /\ ~jl.vector => ExpectedSum < SetupPP.n
     /\ SumDecodable
     /\ \A v \in dropped : \A i \in Users :
           keyShares[v][i].value - keyShares[v][1].value
               = (i - 1) * (keyShares[v][2].value - keyShares[v][1].value))
    => aggOut = Return(ExpectedSum)

\* C11: sum-to-zero after setup.  The keys returned by JLS.setup, TJLS.setup
\* and TD_TJLS.setup satisfy (sum of the nusers user keys) + server key = 0
\* over the integers, there are exactly nusers user keys, and every key
\* carries the returned public parameters.
C11_SumToZeroAfterSetup ==
    jl_pc # "new" =>
        /\ KeysSumToZero
        /\ DOMAIN userKeys = Users
        /\ Cardinality(DOMAIN userKeys) = jl.nusers
        /\ \A u \in Users : userKeys[u].pp = SetupPP
        /\ serverKey.pp = SetupPP

\* TD_TJLS.setup has returned keys whose sum exceeds n*phi_n, so a server
\* key reduced modulo n or n*phi_n would differ from the returned one
C11_Witness ==
    /\ jl_pc = "keys"
    /\ jl.cls = "TD_TJLS"
    /\ jl.nusers = NUsersJL
    /\ 0 - serverKey.s > RingN * RingPhi

(***************************************************************************)
(* Claims about field elements, checked under SpecField.                   *)
(***************************************************************************)
InRange(v) == 0 <= v /\ v < FieldP

\* C12: field element range.  Every field element, constructed from an
\* integer or a byte string or produced by an operation, has a value v with
\* 0 <= v < p.
C12_FieldElementRange ==
    /\ f_pc >= 1 => InRange(fx)
    /\ f_pc = 2 => InRange(fy)

\* the part of C12 that holds: what add, subtract, multiply, divide, inverse
\* and exponentiation return is in range, whatever the operands
Field_ResultsInRange ==
    (fcall.op \in {"add", "sub", "mul", "div", "inverse", "pow"}
     /\ fres.err = "")
    => InRange(fres.val)

\* C20: inverse of zero fails.  PField.inverse, and division by an element,
\* fail with an error on an element congruent to 0 modulo p and return no
\* element, and for every other element a the product a * a.inverse() is
\* the field's 1.
C20_InverseOfZeroFails ==
    /\ (fcall.op = "inverse" /\ fcall.a % FieldP = 0) => fres.err # ""
    /\ (fcall.op = "div" /\ fcall.b % FieldP = 0) => fres.err # ""
    /\ (fcall.op = "inverse" /\ fcall.a % FieldP # 0) =>
           /\ fres.err = ""
           /\ PField_mul(fcall.a, fres.val) = PField(1)

\* inverse has failed on the element with the unreduced value p
C20_Witness ==
    /\ fcall.op = "inverse"
    /\ fcall.a = FieldP
    /\ fres.err = "ZeroDivisionError"

\* inverse has failed on the element 0
C20_ZeroReached ==
    /\ fcall.op = "inverse"
    /\ fcall.a = 0
    /\ fres.err = "ValueError"

\* inverse has returned the inverse of an element other than 0 and 1
C20_NonZeroReached ==
    /\ fcall.op = "inverse"
    /\ fcall.a % FieldP > 1
    /\ fres.err = ""

(***************************************************************************)
(* Claims about the full-domain hash.                                      *)
(***************************************************************************)
\* C13: every value H returns is coprime to the N the hash is keyed with;
\* a candidate that shares a factor with N is never returned, whatever the
\* tag.
C13_HashCoprime ==
    hres.err = "" => gcd(hres.val, fdh.N) = 1

\* H has rejected its first candidate and returned the second
C13_Witness ==
    /\ hres.err = ""
    /\ hres.val > 255
    /\ gcd(hres.val \div 256, fdh.N) # 1

\* H has run out of counters without a coprime candidate
C13_ExhaustedReached ==
    /\ hres.err = "OverflowError"
    /\ hres.t >= 0

(***************************************************************************)
(* Claims about the composite-ring sharing.                                *)
(***************************************************************************)
\* C14: composite-ring round trip.  For every secret in 0..n*phi_n-1, every
\* threshold and every list of at least threshold distinct shares that share
\* returned, reconstruct with delta = nusers! and the coefficients lagrange
\* computed for that list returns the secret.
C14_ShoupRoundTrip ==
    (scheme = "Shoup" /\ SameListQuorum) => recOut = Return(secret)

(***************************************************************************)
(* Claims about the parameter objects.                                     *)
(***************************************************************************)
\* C15: + and += of two encrypted numbers whose parameters have different
\* moduli fail and yield no ciphertext, decrypt fails on a ciphertext created
\* under another modulus, and two parameter objects with equal n are treated
\* as the same.
C15_ParamMismatchRejected ==
    /\ ppcall.op \in {"add", "iadd"} =>
          IF ppcall.a.pp.n # ppcall.b.pp.n
          THEN ppres.err = "ValueError" /\ encA = ppcall.a
          ELSE /\ ppres.err = ""
               /\ ppres.val.ciphertext =
                      (ppcall.a.ciphertext * ppcall.b.ciphertext)
                          % ppcall.a.pp.n_squared
    /\ ppcall.op = "decrypt" =>
          IF ppcall.a.pp.n # ppcall.b.pp.n
          THEN ppres.err = "ValueError"
          ELSE ppres.err = ""

\* an addition of numbers under different moduli has been refused
C15_Witness ==
    /\ ppcall.op = "add"
    /\ ppcall.a.pp.n # ppcall.b.pp.n
    /\ ppres.err = "ValueError"

\* two distinct parameter objects with the same modulus have been combined
C15_EqualModuliReached ==
    /\ ppcall.op = "iadd"
    /\ ppcall.a.pp # ppcall.b.pp
    /\ ppres.err = ""

\* decrypt has refused a ciphertext of another modulus
C15_DecryptRefusedReached ==
    /\ ppcall.op = "decrypt"
    /\ ppres.err = "ValueError"

(***************************************************************************)
(* Claims about vectors of different lengths.                              *)
(***************************************************************************)
\* the lengths of the vectors agg was given
AggLengths ==
    {Len(ys[u]) : u \in Online}
    \cup (IF combineOut.err = "" THEN {Len(combineOut.val)} ELSE {})

\* C16: agg of JLS, TJLS and TD_TJLS fails, and returns no aggregate,
\* whenever the protected vectors and the zero-share vector it is given do
\* not all have the same length.
C16_LengthMismatchRejected ==
    (jl_pc = "resized" /\ Cardinality(AggLengths) > 1) => aggOut.err # ""

\* JLS.agg rejects vectors of different lengths
JLS_LengthMismatchRejected ==
    (jl_pc = "resized" /\ Cardinality(AggLengths) > 1 /\ jl.cls = "JLS")
        => aggOut.err = "AssertionError"

\* TD_TJLS.agg rejects vectors of different lengths, unless the zero-share
\* vector is the empty one
TD_LengthMismatchRejected ==
    (jl_pc = "resized" /\ Cardinality(AggLengths) > 1 /\ jl.cls = "TD_TJLS"
       /\ (combineOut.err = "" => Len(combineOut.val) > 0))
        => aggOut.err = "AssertionError"

(***************************************************************************)
(* Claims about the quorum of share_combine.                               *)
(***************************************************************************)
\* C17: share_combine of TJLS and TD_TJLS, given fewer zero-shares (or
\* vectors of zero-shares) than the threshold, fails with an error and
\* returns no combined ciphertext.
C17_UnderQuorumRejected ==
    jl_pc = "short" => combineOut.err \notin {"", "none"}

\* the assertion of _reconstruct has refused one zero-share where the
\* threshold is two or more
C17_Witness ==
    /\ jl_pc = "short"
    /\ jl.threshold >= 2
    /\ combineOut.err = "AssertionError"

\* the same with vectors of zero-shares, in the ring-based scheme
C17_VectorReached ==
    /\ jl_pc = "short"
    /\ jl.vector
    /\ jl.cls = "TD_TJLS"
    /\ combineOut.err = "AssertionError"

(***************************************************************************)
(* Claims about the privacy of Shamir sharing.                             *)
(***************************************************************************)
\* the values at the indices in I of the shares of secret s, over every
\* choice of the t - 1 values rng returns
ShareViews(s, t, I) ==
    {[i \in I |-> SSS_share(s, t, NUsersSS, rnd)[i].value] :
        rnd \in [1..(t - 1) -> FieldCoeffs]}

\* C18: t - 1 shares reveal nothing about the secret.  For every set of
\* t - 1 indices and every two secrets, the share values at those indices,
\* over all choices of the random coefficients, are the same collection; so
\* what a holder of t - 1 of the shares made sees is possible for every
\* secret.
C18_ThresholdPrivacy ==
    (scheme = "SSS" /\ ss_pc = "shared") =>
        \A I \in SUBSET (1..NUsersSS) :
            Cardinality(I) = threshold - 1 =>
                \A s2 \in FieldSecrets :
                    [i \in I |-> shares[i].value]
                        \in ShareViews(s2, threshold, I)

\* the shares at t - 1 indices are those of the secret they were made from
Share_ViewOfOwnSecret ==
    (scheme = "SSS" /\ ss_pc = "shared") =>
        \A I \in SUBSET (1..NUsersSS) :
            Cardinality(I) = threshold - 1 =>
                [i \in I |-> shares[i].value]
                    \in ShareViews(secret, threshold, I)

(***************************************************************************)
(* Claims about the Lagrange coefficients.                                 *)
(***************************************************************************)
\* the lists of shares with the indices of list, in every order and with
\* other values: all of them 0, or the position in the list
SameIndexLists(list) ==
    {[k \in 1..Len(list) |-> Share(il[k], v * k)] :
        il \in {f \in [1..Len(list) -> IndexSet(list)] :
                   IndexSet(list) \subseteq {f[k] : k \in 1..Len(list)}},
        v \in {0, 1}}

\* lagrange of the scheme in use
lagrange(list) ==
    IF scheme = "SSS" THEN SSS_lagrange(list)
    ELSE ISSS_lagrange(list, factorial(NUsersSS))

\* the shares of another secret at the indices of list, reconstructed with
\* given coefficients: [err, val]
ReconstructOther(s2, rnd2, list, coef) ==
    IF scheme = "SSS"
    THEN LET other == SSS_share(s2, threshold, NUsersSS, rnd2)
         IN SSS_reconstruct([k \in 1..Len(list) |-> other[list[k].idx]],
                            threshold, coef)
    ELSE LET other == ISSS_share(s2, threshold, NUsersSS, rnd2)
         IN ISSS_reconstruct([k \in 1..Len(list) |-> other[list[k].idx]],
                             threshold, factorial(NUsersSS), coef)

\* C19: the coefficients lagrange returns depend only on the indices.  Every
\* list with the same set of indices, whatever its order and its share
\* values, gets the same coefficient for each index; hence the coefficients
\* computed for one list of shares reconstruct the shares of every other
\* secret at those indices.
C19_CoefficientsFromIndices ==
    (scheme \in {"SSS", "ISSS"} /\ ss_pc = "lagged" /\ lagOut.err = "") =>
        /\ \A other \in SameIndexLists(lagList) : lagrange(other) = lagOut
        /\ Len(lagList) >= threshold =>
              \A s2 \in (IF scheme = "SSS" THEN FieldSecrets ELSE IntSecrets) :
                 \A rnd2 \in [1..(threshold - 1) ->
                                 IF scheme = "SSS" THEN FieldCoeffs
                                 ELSE SignedCoeffs] :
                    ReconstructOther(s2, rnd2, lagList, lagOut.coef)
                        = Return(s2)

\* coefficients computed for the list of shares 3, 1, 2, in that order
C19_Witness ==
    /\ scheme = "SSS" /\ ss_pc = "lagged" /\ lagOut.err = ""
    /\ Indices(lagList) = <<3, 1, 2>>
    /\ threshold = 3

\* the same for the integer scheme, on two shares
C19_IntegerReached ==
    /\ scheme = "ISSS" /\ ss_pc = "lagged" /\ lagOut.err = ""
    /\ Indices(lagList) = <<3, 1>>
    /\ threshold = 2

(***************************************************************************)
(* Claims about the termination of the hash.                               *)
(***************************************************************************)
\* C26: H returns a value for every round tag and every bit size: its
\* counter loops exit, and a rejected candidate is followed by a further
\* candidate, not by a failure.
C26_HashReturns ==
    (hres.err # "none" /\ hres.t >= 0) => hres.err = ""

\* H has failed where the bit size is that of one digest
C26_OneDigestReached ==
    /\ hres.err = "OverflowError"
    /\ hres.t >= 0
    /\ fdh.bitsize = 8

(***************************************************************************)
(* Claims about the frame of the calls.                                    *)
(***************************************************************************)
\* C21: a call (here encode and decode of a VES object) changes nothing but
\* its return value: the fields of the VES object are after the call what
\* they were before it.
C21_CallsChangeNothing == [][ves' = ves]_vars

\* an encode has returned and encoded_size is no longer None
C21_EncodedSizeSetReached ==
    /\ nenc > 0
    /\ ves.encoded_size # None

(***************************************************************************)
(* Claims about the final division of the integer scheme.                  *)
(***************************************************************************)
\* C30: ISSS.reconstruct returns a value only when the weighted sum of the
\* shares is an exact multiple of delta^2; a sum that leaves a remainder is
\* reported as an error, not returned rounded.
C30_ExactDivisionOrError ==
    (scheme = "ISSS" /\ ss_pc = "done" /\ recOut.err = "")
        => int_sum(recList, lagOut.coef, Len(recList))
               % (factorial(NUsersSS) * factorial(NUsersSS)) = 0

\* a reconstruction has returned the exact quotient
C30_ExactReached ==
    /\ scheme = "ISSS"
    /\ ss_pc = "done"
    /\ recOut.err = ""
    /\ recOut.val * factorial(NUsersSS) * factorial(NUsersSS)
           = int_sum(recList, lagOut.coef, Len(recList))

(***************************************************************************)
(* Claims about the addition of shares.                                    *)
(***************************************************************************)
\* the sum of two share values as the class of the scheme computes it
ValueSum(cls, x, y) == IF cls = "SSS" THEN (x + y) % FieldP ELSE x + y

\* C22: a + b on two shares of one index returns a new share of that index
\* whose value is the sum and leaves a and b as they were, a + b on shares
\* of different indices fails; the index-by-index sum of sharings of
\* s_1..s_k reconstructs, from at least threshold of its shares, to
\* s_1 + ... + s_k (mod p for the field scheme, exactly for the integer one).
C22_ShareAdditionLinear ==
    /\ ad_add.err # "none" =>
         /\ ad_add.a = ad_sum[ad_add.i]
         /\ ad_add.b = ad_last[ad_add.j]
         /\ (ad_add.a.idx # ad_add.b.idx) <=> (ad_add.err = "AssertionError")
         /\ (ad_add.a.idx = ad_add.b.idx) =>
              /\ ad_add.err = ""
              /\ ad_add.val = Share(ad_add.a.idx,
                                    ValueSum(ad_scheme, ad_add.a.value,
                                             ad_add.b.value))
    /\ (ad_rec.err # "none" /\ Len(ad_rec.list) >= ad_t) =>
         /\ ad_rec.err = ""
         /\ ad_rec.val = IF ad_scheme = "SSS"
                         THEN SumSeq(ad_secrets) % FieldP
                         ELSE SumSeq(ad_secrets)

\* the sum of MaxSharings sharings of threshold above 1 was reconstructed
\* from exactly threshold shares
C22_Witness ==
    /\ Len(ad_secrets) = MaxSharings
    /\ ad_t > 1
    /\ ad_rec.err = ""
    /\ Len(ad_rec.list) = ad_t

\* two shares of different indices were added
C22_DifferentIndicesReached ==
    /\ ad_add.err = "AssertionError"
    /\ ad_add.i # ad_add.j

\* the sum of the secrets wrapped around the prime
C22_WrappedReached ==
    /\ ad_scheme = "SSS"
    /\ ad_rec.err = ""
    /\ SumSeq(ad_secrets) >= FieldP

(***************************************************************************)
(* Claims about the slot tags.                                             *)
(***************************************************************************)
\* C27: the tag of slot i under round tag tau is (i << bits/2) | tau on the
\* encrypting and on the decrypting side, and for round tags below
\* 2^(bits/2) two different pairs (i, tau) never have the same tag.
C27_SlotTagsDistinct ==
    (tg_a.set /\ tg_b.set) =>
        LET half == 2^(tg_pp.bits \div 2)
        IN /\ tg_a.enc = tg_a.dec
           /\ tg_b.enc = tg_b.dec
           /\ tg_a.tau < half => tg_a.enc = tg_a.i * half + tg_a.tau
           /\ (/\ tg_a.tau < half
               /\ tg_b.tau < half
               /\ <<tg_a.i, tg_a.tau>> # <<tg_b.i, tg_b.tau>>)
                  => tg_a.enc # tg_b.enc

\* two slots of two rounds, the second slot not the first of its vector
C27_Witness ==
    /\ tg_a.set
    /\ tg_b.set
    /\ tg_a.tau # tg_b.tau
    /\ tg_a.i # tg_b.i
    /\ tg_b.i > 0
    /\ tg_a.tau < 2^(tg_pp.bits \div 2)
    /\ tg_b.tau < 2^(tg_pp.bits \div 2)

\* a round tag of 2^(bits/2) or more: slot 0 takes the tag of slot 1 of
\* round 0
C27_LargeTauCollisionReached ==
    /\ tg_a.set
    /\ tg_b.set
    /\ <<tg_a.i, tg_a.tau>> # <<tg_b.i, tg_b.tau>>
    /\ tg_a.enc = tg_b.enc

(***************************************************************************)
(* Claims about the round without dropouts.                                *)
(***************************************************************************)
\* C28: on the protected inputs of a round without dropouts and with no
\* zero-share given, TJLS.agg and TD_TJLS.agg return what JLS.agg returns,
\* for integers and for vectors, and the protected inputs are afterwards
\* what the users sent.
C28_ThresholdAggIsBaseAgg ==
    jl_pc = "compared" =>
        /\ aggOut.jls.err = ""
        /\ aggOut.tjls = aggOut.jls
        /\ aggOut.td = aggOut.jls
        /\ \A u \in Online :
             ys[u] = IF jl.vector
                     THEN JLS_protect_list(JLVES(jl.nusers), SetupPP,
                                           userKeys[u], tau, inputs[u]).val
                     ELSE JLS_protect(SetupPP, userKeys[u], tau,
                                      inputs[u]).val

\* the three have aggregated the vectors of the largest number of users
C28_Witness ==
    /\ jl_pc = "compared"
    /\ jl.vector
    /\ jl.nusers = NUsersJL
    /\ aggOut.td.err = ""
    /\ \E u \in Online : \E i \in DOMAIN inputs[u] : inputs[u][i] > 0

\* the three have aggregated integers, one of them the largest plaintext
C28_ScalarReached ==
    /\ jl_pc = "compared"
    /\ ~jl.vector
    /\ aggOut.tjls.err = ""
    /\ \E u \in Online : inputs[u] = RingN - 1


(***************************************************************************)
(* C29.  SecAgg never releases both shares of one peer: over every         *)
(* sequence of unmasking calls in one FL step a SecAggClient never returns *)
(* both the b-mask share and the secret-key share of the same peer.        *)
(* unmasking keeps no record of what it returned before: called with       *)
(* [1, 2, 3] and then with [1, 2] it returns the b-mask share and then the *)
(* key share of peer 3.                                                    *)
(***************************************************************************)
C29_NeverBothShares ==
    cl.proto = "SecAgg" =>
        \A v \in 1..cl.nclients :
            ~(<<"b", v>> \in cl_released /\ <<"sk", v>> \in cl_released)

\* within one call the released shares follow the reported set
C29_OneCallFollowsReport ==
    (cl.proto = "SecAgg" /\ cl_pc = "unmasking" /\ cl_out.err = "") =>
        /\ DOMAIN cl_out.b = cl_out.on
        /\ DOMAIN cl_out.sk = (1..cl.nclients) \ cl_out.on

(***************************************************************************)
(* C25.  Share messages are accepted only from the claimed peer: in FTSA   *)
(* (setup_keysetup2, online_construct) and SecAgg (unmasking) every share  *)
(* a client holds for another user v was taken from a message delivered as *)
(* coming from v whose receiver id is the client's own id and whose sender *)
(* id is v; and when a delivered message decrypts under the channel key of *)
(* its claimed peer but carries other ids, the call fails and no share     *)
(* from that message is held.                                              *)
(***************************************************************************)
\* the stores the call at cl_pc writes
StoresOf(pc) ==
    IF pc = "setup_keysetup2" THEN {"sk"}
    ELSE IF pc = "online_construct" THEN {"b"}
    ELSE IF pc = "unmasking" THEN {"sk", "b"}
    ELSE {}

\* the store named kind, and the share of that kind inside a message
StoreNamed(kind) == IF kind = "sk" THEN cl_sk_shares ELSE cl_b_shares
Inside(kind, message) == IF kind = "sk" THEN message.k ELSE message.b

C25_SharesOnlyFromClaimedPeer ==
    \A kind \in StoresOf(cl_pc) :
        /\ \A v \in DOMAIN StoreNamed(kind) \ {cl.user} :
              \E i \in 1..Len(cl_e_shares) :
                 /\ cl_e_shares[i][1] = v
                 /\ cl_e_shares[i][2].v = cl.user
                 /\ cl_e_shares[i][2].u = v
                 /\ StoreNamed(kind)[v] =
                       Share(cl.user, Inside(kind, cl_e_shares[i][2]))
        /\ \A i \in 1..Len(cl_e_shares) :
              LET v == cl_e_shares[i][1]
                  message == cl_e_shares[i][2]
              IN (/\ v # cl.user
                  /\ message.chan = {cl.user, v}
                  /\ ~(message.v = cl.user /\ message.u = v))
                 => /\ cl_out.err # ""
                    /\ v \notin DOMAIN StoreNamed(kind)

\* a call failed on the ids of a message after it stored the share of an
\* earlier one
C25_Witness ==
    /\ cl_pc \in {"setup_keysetup2", "online_construct", "unmasking"}
    /\ cl_out.err = "AssertionError"
    /\ \E i \in 1..Len(cl_e_shares) :
          /\ cl_e_shares[i][1] # cl.user
          /\ cl_e_shares[i][2].chan = {cl.user, cl_e_shares[i][1]}
          /\ cl_e_shares[i][2].u = cl.user
    /\ \E kind \in StoresOf(cl_pc) :
          DOMAIN StoreNamed(kind) \ {cl.user} # {}

C25_UnmaskingRejectReached ==
    /\ cl_pc = "unmasking"
    /\ cl_out.err = "AssertionError"
    /\ Cardinality(cl_out.on) >= cl.threshold
    /\ DOMAIN cl_b_shares \ {cl.user} # {}

(***************************************************************************)
(* C24.  Owl end to end: for every set of online clients of size at least  *)
(* the threshold, whichever ids dropped after key generation, the          *)
(* aggregate OwlServer.online_construct returns is the element-wise sum of *)
(* the online clients' input vectors.  OwlClient.online_construct sums the *)
(* key shares of users 1 .. len(clients_on), whichever ids are online: for *)
(* the online set {2, 3} of three clients the server rebuilds key 1 + key  *)
(* 2 and decrypts inputs protected under key 2 and key 3.                  *)
(* The statement is checked on the rounds whose sum has no zero element,    *)
(* the ones VES.decode can return in full (C9).                            *)
(***************************************************************************)
C24_OwlAggregateIsSum ==
    (/\ pr.proto = "Owl"
     /\ pr_pc = "done"
     /\ \A i \in 1..Len(RoundSum) : RoundSum[i] # 0)
    => /\ pr_out.err = ""
       /\ pr_out.val = RoundSum

\* the online clients are users 1 .. k and no element of the sum is zero:
\* the aggregate is the sum
C24_FirstUsersOnlineSum ==
    (/\ pr.proto = "Owl"
     /\ pr_pc = "done"
     /\ pr_on = [k \in 1..Len(pr_on) |-> k]
     /\ \A i \in 1..Len(RoundSum) : RoundSum[i] # 0)
    => /\ pr_out.err = ""
       /\ pr_out.val = RoundSum

\* a wrong aggregate for online clients other than the first ones, no
\* element of the sum being zero
C24_OtherUsersWrongReached ==
    /\ pr.proto = "Owl"
    /\ pr_pc = "done"
    /\ pr_on # [k \in 1..Len(pr_on) |-> k]
    /\ \A i \in 1..Len(RoundSum) : RoundSum[i] # 0
    /\ pr_out.err = ""
    /\ pr_out.val # RoundSum

(***************************************************************************)
(* C23.  FTSA end to end: for nclients clients, threshold t and any set of *)
(* at most nclients - t clients that complete key setup but send nothing   *)
(* in the online round, one full round ends with                           *)
(* ServerFTSA.online_construct returning exactly the element-wise sum of   *)
(* the online clients' input vectors.  The statement is checked on the     *)
(* rounds in which no element of the sum of the masked inputs is zero, the *)
(* ones VES.decode can return in full (C9).                                *)
(***************************************************************************)
\* the element-wise sum of what the online clients protected
MaskedSum ==
    [i \in 1..pr.ve.vectorsize |->
        SumSeq([k \in 1..Len(pr_on) |->
                   pr_x[pr_on[k]][i] + pr_prg[pr_b_mask[pr_on[k]]][i]])]

C23_FTSAAggregateIsSum ==
    (/\ pr.proto = "FTSA"
     /\ pr_pc = "done"
     /\ \A i \in 1..Len(MaskedSum) : MaskedSum[i] # 0)
    => /\ pr_out.err = ""
       /\ pr_out.val = RoundSum

\* when moreover every element of the sum of the masked inputs is below
\* 2^elementsize, the aggregate is the sum
C23_NoCarrySum ==
    (/\ pr.proto = "FTSA"
     /\ pr_pc = "done"
     /\ \A i \in 1..Len(MaskedSum) :
           MaskedSum[i] # 0 /\ MaskedSum[i] < 2^pr.ve.elementsize)
    => /\ pr_out.err = ""
       /\ pr_out.val = RoundSum

\* a round with a dropped client whose aggregate is the sum
C23_DroppedRoundSumReached ==
    /\ pr.proto = "FTSA"
    /\ pr_pc = "done"
    /\ Len(pr_on) < pr.nclients
    /\ pr_out.err = ""
    /\ pr_out.val = RoundSum
====
